---- MODULE Spec2Model ----
(***************************************************************************)
(* Stream-state polling and notification dispatch of the Twitch monitor    *)
(* bot: TwitchMonitorBot.check_streams and send_live_notification          *)
(* (src/bot.py), the lookups of TwitchService (src/services/twitch.py),    *)
(* the two storage backends behind DatabaseWrapper                         *)
(* (src/services/database.py, mongodb.py, database_wrapper.py) and the     *)
(* admin commands and guild events that change the registry                *)
(* (src/commands/admin.py, src/bot.py).                                    *)
(*                                                                         *)
(* One action is one run of a coroutine between two suspension points      *)
(* (await on network or database I/O): the asyncio event loop runs one     *)
(* coroutine at a time, so everything between two awaits is atomic.        *)
(***************************************************************************)
EXTENDS Integers, Sequences, FiniteSets, TLC

\* ------------------------------------------------------------------ bounds
MaxCmds == 3
\* The clock of the token runs from 0 to MaxTime.
MaxTime == 2
\* The commands and events of a run of the bot in one guild.
MaxOne == 4
\* The polls of one account that a run of the per-account step takes.
MaxPolls == 4
\* The calls of add_streamer and remove_streamer that a run of the storage
\* backends takes.
MaxCalls == 4
\* The polls that a run of the keys of the tracker takes.
MaxKeyPolls == 3

\* --------------------------------------------------- constants of the code
\* The safety margin of the token's expiry (twitch.py line 48).
Margin == 60
\* expires_in when the token response has none (twitch.py line 47).
DefaultExpiresIn == 3600
\* The names of one request of get_multiple_streams (twitch.py line 147).
ChunkSize == 100
\* The longest message setmessage stores (admin.py line 168).
MaxMessage == 1000

\* ------------------------------------------------------- the environment
Guilds == {1, 2}
Names == {"alice", "Alice", "bob"}
ChannelIds == {"ch1", "ch2"}
ChannelGuild(c) == IF c = "ch1" THEN 1 ELSE 2

\* Python's None, for values that are otherwise strings.
None == "None"
\* Python's None, for values that are otherwise dicts.
NoneDict == [none |-> TRUE]
\* An empty dict.
EmptyDict == [n \in {} |-> None]
\* What the raise of an exception looks like to the caller of an operator.
Raised == [raised |-> TRUE]

\* str.lower() on the names of the model.
Lower(n) == IF n = "Alice" THEN "alice" ELSE n
LowerNames == {Lower(n) : n \in Names}

\* What one GET /streams can come to: 200 with a live stream, 200 with no
\* stream, 200 with a stream whose type is not "live", a 5xx status, a 429
\* status, a network exception, and a failed token fetch before the request.
ApiOutcomes == {"live", "empty", "not_live", "status_5xx", "status_429",
                "status_401", "network_error", "token_failure"}
FailedOutcomes == {"status_5xx", "status_429", "status_401", "network_error",
                   "token_failure"}
OfflineOutcomes == {"empty", "not_live"}

\* What one GET /users can come to: 200 with the user, 200 with no user, and
\* the failures.
UserOutcomes == {"user", "empty"} \cup FailedOutcomes

\* The callers of TwitchService that can overlap: check_streams, which
\* calls get_stream_data for the streamers of a list, and addstreamer,
\* which calls get_user_data.
Callers == {"poll", "cmd"}
PollNames == <<"alice", "bob">>
\* expires_in of a token response: on the margin, one above it, absent.
ExpiresIn == {Margin, Margin + 1, DefaultExpiresIn}

VARIABLES
    active_db,     \* DatabaseWrapper.active_db: "None", "mongodb" or "fallback"
    is_async,      \* DatabaseWrapper.is_async
    mongodb,       \* the guilds collection: a sequence of documents
    fallback,      \* DatabaseService.guilds: a dict, in insertion order
    bot_guilds,    \* the guilds the bot is a member of (bot.get_guild)
    channels,      \* the channels that exist (guild.get_channel)
    live_streams,  \* TwitchMonitorBot.live_streams
    running,       \* the tasks of the check_streams loop that run
    cycles,        \* the executions of check_streams in progress
    pc,            \* where check_streams is suspended
    guild_ids,     \* check_streams: guild_ids
    gi,            \* check_streams: position in guild_ids
    guild_data,    \* check_streams: guild_data
    shared,        \* guild_data is the dict object the fallback store holds
    channel,       \* check_streams: channel
    si,            \* check_streams: position of the list iterator
    cur,           \* check_streams: streamer_name
    log,           \* history: what the running cycle did so far, in order
    last_obs,      \* history: per key, the last live or offline observation
    offline_seen,  \* history: per key, no notification yet, or a poll
                   \* observed offline after the last notification
    undelivered,   \* history: per key, a delivery failed and no poll has
                   \* observed offline since
    mongo_up,      \* environment: MongoDB answers the ping of connect()
    readies,       \* history: on_ready ran never, once, or more than once
    cmds,          \* the commands and events so far
    access_token,      \* TwitchService.access_token
    token_expires_at,  \* TwitchService.token_expires_at: <<>> is None
    now,               \* datetime.now()
    call,          \* per caller, where its call of TwitchService is suspended
    pos,           \* the position of check_streams in PollNames
    issued,        \* history: when the held token was obtained
    granted,       \* history: the expires_in of the held token
    limited,       \* history: the positions of PollNames that were answered
                   \* 429 in the cycle
    last,          \* the last call of get_stream_data or get_user_data, with
                   \* what its request came to and what it returned
    batch,         \* the call of get_multiple_streams
    before,        \* history: the keys the tracker held when the process
                   \* was last restarted
    stale,         \* history: the keys whose streamer or guild was removed
                   \* while the tracker held them, until a poll observes
                   \* them offline
    fresh,         \* history: the keys added to the registry since the
                   \* running cycle started
    tests,         \* history: the keys a test notification was sent for
    denied,        \* history: the commands answered with Permission Denied
    trace,         \* history: the polls of one key, with what each observed
                   \* and the notification it emitted
    npc,           \* the delivery of that key's notification is awaited
    tmpl,          \* the entry of custom_messages for the streamer, if set
    snap,          \* the stream_data send_live_notification was called with
    msg,           \* the message it rendered
    delivery,      \* what became of the message
    op             \* per caller of the storage backend, where its call of
                   \* add_streamer or remove_streamer is suspended

vars == <<active_db, is_async, mongodb, fallback, bot_guilds, channels,
          live_streams, running, cycles, pc, guild_ids, gi, guild_data,
          shared, channel, si, cur, log, last_obs, offline_seen, undelivered,
          mongo_up, readies, cmds, access_token, token_expires_at, now,
          call, pos, issued, granted, limited, last, batch, before, stale,
          fresh, tests, denied, trace, npc, tmpl, snap, msg, delivery, op>>

\* The state of TwitchService and of its callers.
service == <<access_token, token_expires_at, now, call, pos, issued, granted,
             limited>>
\* The calls of the functions of TwitchService, taken one at a time.
functions == <<last, batch>>
\* The state of the bot.
bot == <<active_db, is_async, mongodb, fallback, bot_guilds, channels,
         live_streams, running, cycles, pc, guild_ids, gi, guild_data,
         shared, channel, si, cur, log, last_obs, offline_seen, undelivered,
         mongo_up, readies, cmds, before, stale, fresh, tests, denied>>
\* The history of the bot that the registry claims read.
hist == <<before, stale, fresh, tests, denied>>
\* The per-account step of one key, with what it observed and emitted.
steps == <<trace, npc>>
\* One call of send_live_notification.
rendering == <<tmpl, snap, msg, delivery>>
\* The calls of the storage backends, and all that is not the bot, the
\* token or the lookups.
extra == <<steps, rendering, op>>

history == <<last_obs, offline_seen, undelivered>>

Keys == Guilds \X LowerNames

\* ------------------------------------------------------ storage backends
NewGuild(guild_id) ==
    [guild_id |-> guild_id, streamers |-> <<>>,
     notification_channel |-> None, custom_messages |-> EmptyDict]

\* The position of the first record of guild_id in a store, 0 when none.
Find(store, guild_id) ==
    IF \E i \in 1..Len(store) : store[i].guild_id = guild_id
    THEN CHOOSE i \in 1..Len(store) :
            /\ store[i].guild_id = guild_id
            /\ \A j \in 1..(i - 1) : store[j].guild_id # guild_id
    ELSE 0

Has(seq, x) == \E i \in 1..Len(seq) : seq[i] = x

\* list.remove(x): the first occurrence goes.
ListRemove(seq, x) ==
    LET i == CHOOSE i \in 1..Len(seq) :
                 seq[i] = x /\ \A j \in 1..(i - 1) : seq[j] # x
    IN  SubSeq(seq, 1, i - 1) \o SubSeq(seq, i + 1, Len(seq))

\* $pull: every occurrence goes.
Pull(seq, x) == SelectSeq(seq, LAMBDA y : y # x)

DictDel(d, k) == [n \in DOMAIN d \ {k} |-> d[n]]

create_guild(store, guild_id) ==
    IF Find(store, guild_id) = 0 THEN Append(store, NewGuild(guild_id))
    ELSE store

delete_guild(store, guild_id) ==
    LET i == Find(store, guild_id)
    IN  IF i = 0 THEN store
        ELSE SubSeq(store, 1, i - 1) \o SubSeq(store, i + 1, Len(store))

get_guild_data(store, guild_id) ==
    IF Find(store, guild_id) = 0 THEN NoneDict
    ELSE store[Find(store, guild_id)]

get_all_guilds(store) == [i \in 1..Len(store) |-> store[i].guild_id]

add_streamer(store, guild_id, streamer_name) ==
    LET st == create_guild(store, guild_id)
        i == Find(st, guild_id)
        name == Lower(streamer_name)
    IN  IF Has(st[i].streamers, name) THEN st
        ELSE [st EXCEPT ![i].streamers = Append(@, name)]

\* Mutant of remove_streamer: the custom message of the streamer stays.
remove_streamer_keeps_message(store, guild_id, streamer_name) ==
    LET i == Find(store, guild_id)
        name == Lower(streamer_name)
    IN  IF i = 0 THEN store
        ELSE IF Has(store[i].streamers, name)
        THEN [store EXCEPT ![i].streamers = ListRemove(@, name)]
        ELSE store

remove_streamer(store, guild_id, streamer_name) ==
    LET i == Find(store, guild_id)
        name == Lower(streamer_name)
    IN  IF i = 0 THEN store
        ELSE IF Has(store[i].streamers, name)
        THEN [store EXCEPT ![i].streamers = ListRemove(@, name),
                           ![i].custom_messages = DictDel(@, name)]
        ELSE store

set_notification_channel(store, guild_id, channel_id) ==
    LET st == create_guild(store, guild_id)
    IN  [st EXCEPT ![Find(st, guild_id)].notification_channel = channel_id]

Mongo_remove_streamer(store, guild_id, streamer_name) ==
    LET i == Find(store, guild_id)
        name == Lower(streamer_name)
    IN  IF i = 0 THEN store
        ELSE [store EXCEPT ![i].streamers = Pull(@, name),
                           ![i].custom_messages = DictDel(@, name)]

Mongo_create_guild(store, guild_id) ==
    IF \E i \in 1..Len(store) : store[i].guild_id = guild_id THEN store
    ELSE Append(store, NewGuild(guild_id))

Mongo_delete_guild(store, guild_id) ==
    LET i == Find(store, guild_id)
    IN  IF i = 0 THEN store
        ELSE SubSeq(store, 1, i - 1) \o SubSeq(store, i + 1, Len(store))

\* $addToSet on the first document of the guild.
Mongo_add_streamer(store, guild_id, streamer_name) ==
    LET st == Mongo_create_guild(store, guild_id)
        i == Find(st, guild_id)
        name == Lower(streamer_name)
    IN  IF \E j \in 1..Len(st) :
              st[j].guild_id = guild_id /\ Has(st[j].streamers, name)
        THEN st
        ELSE [st EXCEPT ![i].streamers = Append(@, name)]

Mongo_set_notification_channel(store, guild_id, channel_id) ==
    LET st == Mongo_create_guild(store, guild_id)
    IN  [st EXCEPT ![Find(st, guild_id)].notification_channel = channel_id]

\* d[k] = v on a dict.
DictSet(d, k, v) == [n \in DOMAIN d \cup {k} |-> IF n = k THEN v ELSE d[n]]

\* set_custom_message of both backends: create_guild, and the message is
\* stored under the lowercased name.
set_custom_message(store, guild_id, streamer_name, message) ==
    LET st == create_guild(store, guild_id)
    IN  [st EXCEPT ![Find(st, guild_id)].custom_messages =
                       DictSet(@, Lower(streamer_name), message)]

Mongo_set_custom_message(store, guild_id, streamer_name, message) ==
    LET st == Mongo_create_guild(store, guild_id)
    IN  [st EXCEPT ![Find(st, guild_id)].custom_messages =
                       DictSet(@, Lower(streamer_name), message)]

\* The registry of a store lists the streamer of the key for its guild.
Monitored(store, key) ==
    /\ Find(store, key[1]) # 0
    /\ Has(store[Find(store, key[1])].streamers, key[2])

\* The store the wrapper's calls go to.
ActiveStore == IF is_async THEN mongodb ELSE fallback

\* A write through the wrapper. The in-memory backend changes its dicts and
\* lists in place, so a cycle that holds one of them as guild_data sees the
\* change; delete_guild drops the dict from the store and the cycle keeps
\* the object it holds. MongoDB hands out copies.
DbWrite(mem, mongo) ==
    IF is_async
    THEN /\ mongodb' = mongo
         /\ UNCHANGED <<fallback, guild_data, shared>>
    ELSE /\ fallback' = mem
         /\ shared' = (shared /\ Find(mem, guild_data.guild_id) # 0)
         /\ guild_data' = IF shared'
                          THEN get_guild_data(mem, guild_data.guild_id)
                          ELSE guild_data
         /\ UNCHANGED mongodb

\* ---------------------------------------------------------- TwitchService
\* _make_api_request: the parsed body of a 200 response, None otherwise.
make_api_request(outcome) ==
    CASE outcome = "live" -> [data |-> <<[type |-> "live"]>>]
      [] outcome = "user" -> [data |-> <<[login |-> "alice"]>>]
      [] outcome = "not_live" -> [data |-> <<[type |-> ""]>>]
      [] outcome = "empty" -> [data |-> <<>>]
      [] OTHER -> NoneDict

\* Mutant of get_stream_data: the exception of the request reaches the
\* caller.
get_stream_data_unguarded(outcome) ==
    LET response == make_api_request(outcome)
    IN  IF outcome = "network_error" THEN Raised
        ELSE IF response # NoneDict /\ Len(response.data) > 0
        THEN response.data[1]
        ELSE NoneDict

\* get_stream_data: the first stream of the response, None when there is
\* no response or no stream in it.
get_stream_data(outcome) ==
    LET response == make_api_request(outcome)
    IN  IF response # NoneDict /\ Len(response.data) > 0 THEN response.data[1]
        ELSE NoneDict

\* get_user_data: the first user of the response, None when there is no
\* response or no user in it.
get_user_data(outcome) ==
    LET response == make_api_request(outcome)
    IN  IF response # NoneDict /\ Len(response.data) > 0 THEN response.data[1]
        ELSE NoneDict

\* get_multiple_streams, line 147: the chunks of the list of names.
username_chunks(usernames) ==
    [k \in 1..((Len(usernames) + ChunkSize - 1) \div ChunkSize) |->
        SubSeq(usernames, (k - 1) * ChunkSize + 1,
               IF k * ChunkSize < Len(usernames) THEN k * ChunkSize
               ELSE Len(usernames))]

\* What the request for a chunk can come to: 200 with a stream for every
\* name, for the first name, for none, and the failures.
BatchOutcomes == {"all_live", "one_live", "empty"} \cup FailedOutcomes

\* _make_api_request for a chunk: the parsed body of a 200, None otherwise.
batch_response(chunk, outcome) ==
    CASE outcome = "all_live" -> [data |-> chunk]
      [] outcome = "one_live" -> [data |-> <<chunk[1]>>]
      [] outcome = "empty" -> [data |-> <<>>]
      [] OTHER -> NoneDict

\* Mutants of extend: the streams of a chunk take the place of those of
\* the chunks before; a chunk that comes to nothing empties the list.
extend_replacing(all_streams, response) ==
    IF response # NoneDict /\ Len(response.data) > 0 THEN response.data
    ELSE all_streams
extend_emptied_by_failure(all_streams, response) ==
    IF response # NoneDict /\ Len(response.data) > 0
    THEN all_streams \o response.data
    ELSE <<>>

\* Lines 154-155: the streams of a response are added to all_streams.
extend(all_streams, response) ==
    IF response # NoneDict /\ Len(response.data) > 0
    THEN all_streams \o response.data
    ELSE all_streams

\* Mutant of expires_at: the margin is not taken off.
expires_at_without_margin(t, expires_in) == t + expires_in

\* Line 48: token_expires_at.
expires_at(t, expires_in) == t + expires_in - Margin

\* Lines 61-63: _ensure_valid_token fetches a token.
needs_token(token, expiry, t) ==
    \/ token = None
    \/ expiry = <<>>
    \/ t >= expiry[1]

\* Mutant of on_status: a 429 is answered with the request again.
on_status_resending(status) ==
    CASE status \in {"live", "not_live", "empty", "user"} -> "return_json"
      [] status = "status_401" -> "refresh"
      [] status = "status_429" -> "resend"
      [] OTHER -> "return_none"

\* Lines 84-111: what _make_api_request does with the answer to its
\* request: a 200, a 401, a 429, another status, an exception.
on_status(status) ==
    CASE status \in {"live", "not_live", "empty", "user"} -> "return_json"
      [] status = "status_401" -> "refresh"
      [] OTHER -> "return_none"

\* Mutant of on_retry_status: a 401 to the retry is answered with another
\* refresh.
on_retry_status_refreshing(status) ==
    CASE status \in {"live", "not_live", "empty", "user"} -> "return_json"
      [] status = "status_401" -> "refresh"
      [] OTHER -> "return_none"

\* Lines 92-97 and 109-111: what _make_api_request does with the answer to
\* the retry.
on_retry_status(status) ==
    CASE status \in {"live", "not_live", "empty", "user"} -> "return_json"
      [] OTHER -> "return_none"

\* ------------------------------------------------------------ check_streams
stream_key(guild_id, streamer_name) == <<guild_id, streamer_name>>

\* Lines 182-192: what one lookup result does to the tracker, and whether
\* send_live_notification is called.
is_live(stream_data) == stream_data # NoneDict /\ stream_data.type = "live"

\* Mutants of track: the membership test of line 184 is dropped; the add of
\* line 186 is dropped; the discard of line 192 is dropped.
track_without_test(tracker, key, stream_data) ==
    IF is_live(stream_data)
    THEN [live_streams |-> tracker \cup {key}, notify |-> TRUE]
    ELSE [live_streams |-> tracker \ {key}, notify |-> FALSE]

track_without_add(tracker, key, stream_data) ==
    IF is_live(stream_data)
    THEN [live_streams |-> tracker, notify |-> key \notin tracker]
    ELSE [live_streams |-> tracker \ {key}, notify |-> FALSE]

track_without_discard(tracker, key, stream_data) ==
    IF is_live(stream_data)
    THEN IF key \notin tracker
         THEN [live_streams |-> tracker \cup {key}, notify |-> TRUE]
         ELSE [live_streams |-> tracker, notify |-> FALSE]
    ELSE [live_streams |-> tracker, notify |-> FALSE]

\* Mutant of track: the add of line 186 writes back a set that holds the
\* new key alone, and the keys of the other streamers are lost.
track_lost_update(tracker, key, stream_data) ==
    IF is_live(stream_data)
    THEN IF key \notin tracker
         THEN [live_streams |-> {key}, notify |-> TRUE]
         ELSE [live_streams |-> tracker, notify |-> FALSE]
    ELSE [live_streams |-> tracker \ {key}, notify |-> FALSE]

track(tracker, key, stream_data) ==
    IF is_live(stream_data)
    THEN IF key \notin tracker
         THEN [live_streams |-> tracker \cup {key}, notify |-> TRUE]
         ELSE [live_streams |-> tracker, notify |-> FALSE]
    ELSE [live_streams |-> tracker \ {key}, notify |-> FALSE]

\* How the claims classify an outcome of the lookup.
Observed(outcome) ==
    IF outcome = "live" THEN "live"
    ELSE IF outcome \in FailedOutcomes THEN "failed" ELSE "offline"

\* An entry of the log: an event of a guild, or of a streamer of it. The
\* entry of a poll says what the poll observed ("live", "offline",
\* "failed"), and keeps what was known of the key before the poll: its
\* last live or offline observation and whether the tracker held it.
Entry(g, s, e) ==
    [guild |-> g, streamer |-> s, event |-> e, prior |-> None,
     tracked |-> FALSE]
PollEntry(g, s, e) ==
    [guild |-> g, streamer |-> s, event |-> e,
     prior |-> last_obs[stream_key(g, s)],
     tracked |-> stream_key(g, s) \in live_streams]

\* Mutant of start: on_ready starts the loop without asking is_running.
start_unguarded(tasks) == tasks + 1

\* Lines 64-65: check_streams.start() unless the loop is running.
start(tasks) == IF tasks = 0 THEN 1 ELSE tasks

\* Mutant of may_fire: the loop fires while its coroutine is in progress.
may_fire_reentrant(tasks, in_progress) == tasks > 0

\* tasks.loop (line 153): a task of the loop awaits the coroutine and then
\* sleeps until the next iteration, so every task has at most one execution
\* in progress.
may_fire(tasks, in_progress) == in_progress < tasks

\* An error was logged in the cycle: a failed lookup, a failed read of a
\* guild's data, a failed delivery.
ErrorEvents == {"failed", "db_error", "delivery_failed"}
HadError(lg) == \E i \in 1..Len(lg) : lg[i].event \in ErrorEvents

\* Mutant of loop_after_cycle: a cycle in which an error occurred takes
\* the loop down with it.
loop_stopped_by_error(tasks, lg) == IF HadError(lg) THEN 0 ELSE tasks

\* Lines 156-198: every exception of a cycle is caught and logged, at the
\* latest by the handler of line 197, so check_streams returns and the
\* loop goes on to its next iteration.
loop_after_cycle(tasks, lg) == tasks

\* The for loop over guild_ids moves to position i, or the cycle ends.
ToGuild(ids, i, lg) ==
    /\ IF i <= Len(ids)
       THEN pc' = "guild" /\ gi' = i /\ guild_ids' = ids /\ log' = lg
       ELSE pc' = "idle" /\ gi' = 0 /\ guild_ids' = <<>> /\ log' = <<>>
    /\ running' = IF i <= Len(ids) THEN running
                  ELSE loop_after_cycle(running, lg)
    /\ guild_data' = NoneDict
    /\ shared' = FALSE
    /\ channel' = None
    /\ si' = 0
    /\ cur' = None

\* The end of the loop body for the streamer at position si: the list
\* iterator yields the item at the next position of the list as it is now,
\* or the loop over the guilds goes on.
NextStreamer(lg) ==
    IF si + 1 <= Len(guild_data.streamers)
    THEN /\ si' = si + 1
         /\ cur' = guild_data.streamers[si + 1]
         /\ pc' = "lookup"
         /\ log' = lg
         /\ UNCHANGED <<guild_ids, gi, guild_data, shared, channel, running>>
    ELSE ToGuild(guild_ids, gi + 1, lg)

\* Mutant of Mongo_get_guild_data: the read error is not caught.
Mongo_get_guild_data_raising(store, guild_id, db_ok) ==
    IF db_ok THEN get_guild_data(store, guild_id) ELSE Raised

\* MongoDBService.get_guild_data: find_one, and None when the read raises.
Mongo_get_guild_data(store, guild_id, db_ok) ==
    IF db_ok THEN get_guild_data(store, guild_id) ELSE NoneDict

\* Mutant of after_lookup: a failed lookup leaves the loop over the
\* streamers, as an exception that no handler inside the loop catches.
after_lookup_leaving(outcome, notify) ==
    IF outcome \in FailedOutcomes THEN "leave"
    ELSE IF notify THEN "send" ELSE "next"

\* Lines 177-195: where the loop over the streamers goes after a lookup:
\* into send_live_notification, or to the next streamer.
after_lookup(outcome, notify) == IF notify THEN "send" ELSE "next"

\* Mutant of guild_check: a guild without a notification channel is
\* polled.
guild_check_without_channel(data, db_ok, guild_id, member, chans) ==
    IF ~member THEN "skipped"
    ELSE IF data = Raised THEN "raise"
    ELSE IF data = NoneDict THEN (IF db_ok THEN "skipped" ELSE "db_error")
    ELSE IF Len(data.streamers) = 0 THEN "no_streamers"
    ELSE "poll"

\* Lines 160-174: what check_streams does with a guild of guild_ids, given
\* what get_guild_data came to: the guild is skipped, and why, or its
\* streamers are polled.
guild_check(data, db_ok, guild_id, member, chans) ==
    IF ~member THEN "skipped"
    ELSE IF data = Raised THEN "raise"
    ELSE IF data = NoneDict THEN (IF db_ok THEN "skipped" ELSE "db_error")
    ELSE IF Len(data.streamers) = 0 THEN "no_streamers"
    ELSE IF data.notification_channel = None THEN "no_channel"
    ELSE IF data.notification_channel \notin chans
            \/ ChannelGuild(data.notification_channel) # guild_id
    THEN "skipped"
    ELSE "poll"

\* The command handlers whose calls of the storage backend can overlap.
Handlers == {"h1", "h2"}
\* A handler that has no call in progress.
NoOp == [fn |-> "none", at |-> "idle", name |-> None, result |-> FALSE]
\* custom_messages holds no entry for the streamer.
NoTemplate == [set |-> FALSE, tokens |-> <<>>, len |-> 0]

\* No result yet.
Pending == [pending |-> TRUE]
\* A caller that has not called: fn is the function called, at is the await
\* of _make_api_request the call is suspended in ("token": the token request
\* of _ensure_valid_token, "get": the request, "refresh": the token request
\* after a 401, "retry": the request again), gets and posts are the API
\* requests and the token requests the call has sent, result is what the
\* function returned.
Idle == [fn |-> "none", at |-> "idle", gets |-> 0, posts |-> 0,
         result |-> Pending]

\* get_multiple_streams was not called: usernames is the argument, sent
\* are the chunks requested so far, outcomes what the requests came to,
\* answers the streams of each answer (none when the request failed),
\* all_streams is the local of that name, done says that the call
\* returned, and result what it returned.
NoBatch == [usernames |-> <<>>, sent |-> <<>>, outcomes |-> <<>>,
            answers |-> <<>>, all_streams |-> <<>>, done |-> TRUE,
            result |-> <<>>]

Init ==
    /\ active_db = None
    /\ is_async = FALSE
    /\ mongodb = <<>>
    /\ fallback = <<>>
    /\ bot_guilds = Guilds
    /\ channels = ChannelIds
    /\ live_streams = {}
    /\ running = 0
    /\ cycles = 0
    /\ pc = "idle"
    /\ guild_ids = <<>>
    /\ gi = 0
    /\ guild_data = NoneDict
    /\ shared = FALSE
    /\ channel = None
    /\ si = 0
    /\ cur = None
    /\ log = <<>>
    /\ last_obs = [k \in Keys |-> "none"]
    /\ offline_seen = [k \in Keys |-> TRUE]
    /\ undelivered = [k \in Keys |-> FALSE]
    /\ mongo_up \in BOOLEAN
    /\ readies = 0
    /\ cmds = 0
    /\ access_token = None
    /\ token_expires_at = <<>>
    /\ now = 0
    /\ call = [c \in Callers |-> Idle]
    /\ pos = 0
    /\ issued = 0
    /\ granted = 0
    /\ limited = {}
    /\ last = [fn |-> "none", outcome |-> "none", result |-> Pending]
    /\ batch = NoBatch
    /\ before = {}
    /\ stale = {}
    /\ fresh = {}
    /\ tests = {}
    /\ denied = {}
    /\ trace = <<>>
    /\ npc = "idle"
    /\ tmpl = NoTemplate
    /\ snap = NoneDict
    /\ msg = Pending
    /\ delivery = "none"
    /\ op = [c \in Handlers |-> NoOp]

\* on_ready, at the first connection and at every reconnection:
\* DatabaseWrapper.initialize picks the backend, and the loop is started
\* unless it runs already. Whether MongoDB can be reached is the same
\* throughout a run.
OnReady ==
    /\ active_db' = IF mongo_up THEN "mongodb" ELSE "fallback"
    /\ is_async' = mongo_up
    /\ running' = start(running)
    /\ readies' = IF readies = 0 THEN 1 ELSE 2
    /\ UNCHANGED <<service, functions, extra>>
    /\ UNCHANGED <<mongodb, fallback, bot_guilds, channels, live_streams,
                   cycles, pc, guild_ids, gi, guild_data, shared, channel, si,
                   cur, log, history, mongo_up, cmds>>

\* The loop fires: get_all_guilds, and the for loop starts. A failed read
\* of MongoDB gives the empty list.
Tick ==
    /\ may_fire(running, cycles)
    /\ \E db_ok \in (IF is_async THEN BOOLEAN ELSE {TRUE}) :
          ToGuild(IF db_ok THEN get_all_guilds(ActiveStore) ELSE <<>>, 1,
                  <<>>)
    /\ cycles' = IF pc' = "idle" THEN cycles ELSE cycles + 1
    /\ UNCHANGED <<service, functions, extra>>
    /\ UNCHANGED <<active_db, is_async, mongodb, fallback, bot_guilds,
                   channels, live_streams, history, mongo_up, readies, cmds>>

\* Lines 160-177 for the guild at position gi: the guild is skipped, or the
\* loop over its streamers starts with the first lookup.
GuildStep ==
    /\ pc = "guild"
    /\ \E db_ok \in (IF is_async THEN BOOLEAN ELSE {TRUE}) :
        LET guild_id == guild_ids[gi]
            data == IF is_async
                    THEN Mongo_get_guild_data(mongodb, guild_id, db_ok)
                    ELSE get_guild_data(fallback, guild_id)
            what == guild_check(data, db_ok, guild_id,
                                guild_id \in bot_guilds, channels)
        IN  CASE what = "poll" ->
                     /\ guild_data' = data
                     /\ shared' = ~is_async
                     /\ channel' = data.notification_channel
                     /\ si' = 1
                     /\ cur' = data.streamers[1]
                     /\ pc' = "lookup"
                     /\ UNCHANGED <<guild_ids, gi, log, running>>
              [] what = "raise" ->
                     \* the handler of lines 197-198 ends the cycle
                     ToGuild(guild_ids, Len(guild_ids) + 1,
                             Append(log, Entry(guild_id, None, "db_error")))
              [] OTHER ->
                     ToGuild(guild_ids, gi + 1,
                             Append(log, Entry(guild_id, None, what)))
    /\ cycles' = IF pc' = "idle" THEN cycles - 1 ELSE cycles
    /\ UNCHANGED <<service, functions, extra>>
    /\ UNCHANGED <<active_db, is_async, mongodb, fallback, bot_guilds,
                   channels, live_streams, history, mongo_up, readies, cmds>>

\* get_stream_data comes back for the streamer cur: lines 180-192. The key
\* goes into the tracker before send_live_notification is awaited.
Lookup(outcome) ==
    /\ pc = "lookup"
    /\ LET guild_id == guild_ids[gi]
           stream_data == get_stream_data(outcome)
           key == stream_key(guild_id, cur)
           t == track(live_streams, key, stream_data)
           obs == Observed(outcome)
           lg == Append(log, PollEntry(guild_id, cur, obs))
           go == after_lookup(outcome, t.notify)
       IN  /\ live_streams' = t.live_streams
           /\ last_obs' = IF obs = "failed" THEN last_obs
                          ELSE [last_obs EXCEPT ![key] = obs]
           /\ offline_seen' =
                  [offline_seen EXCEPT
                      ![key] = IF go = "send" THEN FALSE
                               ELSE IF obs = "offline" THEN TRUE ELSE @]
           /\ undelivered' =
                  [undelivered EXCEPT
                      ![key] = IF obs = "offline" THEN FALSE ELSE @]
           /\ CASE go = "send" ->
                     /\ pc' = "send"
                     /\ log' = Append(lg, Entry(guild_id, cur, "notify"))
                     /\ UNCHANGED <<guild_ids, gi, guild_data, shared,
                                    channel, si, cur, running>>
                [] go = "next" -> NextStreamer(lg)
                [] OTHER -> \* the handler of lines 197-198 ends the cycle
                     ToGuild(guild_ids, Len(guild_ids) + 1, lg)
    /\ cycles' = IF pc' = "idle" THEN cycles - 1 ELSE cycles
    /\ UNCHANGED <<service, functions, extra>>
    /\ UNCHANGED <<active_db, is_async, mongodb, fallback, bot_guilds,
                   channels, mongo_up, readies, cmds>>

\* send_live_notification comes back: the message was sent, or rendering
\* or channel.send raised and lines 243-244 logged it.
Send(sent) ==
    /\ pc = "send"
    /\ undelivered' =
           [undelivered EXCEPT ![stream_key(guild_ids[gi], cur)] = ~sent]
    /\ UNCHANGED <<last_obs, offline_seen>>
    /\ NextStreamer(Append(log, Entry(guild_ids[gi], cur,
                                      IF sent THEN "delivered"
                                      ELSE "delivery_failed")))
    /\ cycles' = IF pc' = "idle" THEN cycles - 1 ELSE cycles
    /\ UNCHANGED <<service, functions, extra>>
    /\ UNCHANGED <<active_db, is_async, mongodb, fallback, bot_guilds,
                   channels, live_streams, mongo_up, readies, cmds>>

\* ----------------------------------------------------- commands and events
\* A command or an event runs while the cycle is suspended in an await.
\* With the in-memory backend the database calls of the cycle do not
\* suspend it.
Suspended == pc \in {"idle", "lookup", "send"} \/ (is_async /\ pc = "guild")

\* The commands and events of a run are counted; every specification takes
\* them up to its bound.
Command ==
    /\ active_db # None
    /\ Suspended
    /\ cmds' = cmds + 1
    /\ UNCHANGED <<service, functions, extra>>
    /\ UNCHANGED <<active_db, is_async, live_streams, running, cycles, pc,
                   guild_ids, gi, channel, si, cur, log, history, mongo_up,
                   readies>>

\* addstreamer: get_user_data finds the user or not; create_guild and
\* add_streamer with the login, which Twitch gives in lower case. The
\* database calls of one command are taken in one step.
AddStreamer(guild_id, name) ==
    /\ Command
    /\ guild_id \in bot_guilds
    /\ \E found \in BOOLEAN :
          IF found
          THEN DbWrite(add_streamer(create_guild(fallback, guild_id),
                                    guild_id, Lower(name)),
                       Mongo_add_streamer(Mongo_create_guild(mongodb, guild_id),
                                          guild_id, Lower(name)))
          ELSE UNCHANGED <<mongodb, fallback, guild_data, shared>>
    /\ UNCHANGED <<bot_guilds, channels>>

RemoveStreamer(guild_id, name) ==
    /\ Command
    /\ guild_id \in bot_guilds
    /\ DbWrite(remove_streamer(fallback, guild_id, Lower(name)),
               Mongo_remove_streamer(mongodb, guild_id, Lower(name)))
    /\ UNCHANGED <<bot_guilds, channels>>

\* setchannel: create_guild; the channel is stored when the bot may send
\* messages and embeds to it.
SetChannel(guild_id, channel_id) ==
    /\ Command
    /\ guild_id \in bot_guilds
    /\ channel_id \in channels
    /\ ChannelGuild(channel_id) = guild_id
    /\ \E permitted \in BOOLEAN :
          IF permitted
          THEN DbWrite(set_notification_channel(
                           create_guild(fallback, guild_id), guild_id,
                           channel_id),
                       Mongo_set_notification_channel(
                           Mongo_create_guild(mongodb, guild_id), guild_id,
                           channel_id))
          ELSE DbWrite(create_guild(fallback, guild_id),
                       Mongo_create_guild(mongodb, guild_id))
    /\ UNCHANGED <<bot_guilds, channels>>

OnGuildJoin(guild_id) ==
    /\ Command
    /\ guild_id \notin bot_guilds
    /\ bot_guilds' = bot_guilds \cup {guild_id}
    /\ DbWrite(create_guild(fallback, guild_id),
               Mongo_create_guild(mongodb, guild_id))
    /\ UNCHANGED channels

OnGuildRemove(guild_id) ==
    /\ Command
    /\ guild_id \in bot_guilds
    /\ bot_guilds' = bot_guilds \ {guild_id}
    /\ DbWrite(delete_guild(fallback, guild_id),
               Mongo_delete_guild(mongodb, guild_id))
    /\ UNCHANGED channels

\* A channel of a guild is deleted on Discord.
ChannelDelete(channel_id) ==
    /\ Command
    /\ channel_id \in channels
    /\ channels' = channels \ {channel_id}
    /\ UNCHANGED <<mongodb, fallback, guild_data, shared, bot_guilds>>

\* The bot with the commands of two guilds; the history of the registry is
\* not kept.
Next ==
    \/ OnReady /\ UNCHANGED hist
    \/ Tick /\ UNCHANGED hist
    \/ GuildStep /\ UNCHANGED hist
    \/ (\E outcome \in ApiOutcomes : Lookup(outcome)) /\ UNCHANGED hist
    \/ (\E sent \in BOOLEAN : Send(sent)) /\ UNCHANGED hist
    \/ /\ cmds < MaxCmds
       /\ \E guild_id \in Guilds, name \in Names : AddStreamer(guild_id, name)
       /\ UNCHANGED hist
    \/ /\ cmds < MaxCmds
       /\ \E guild_id \in Guilds, name \in Names :
             RemoveStreamer(guild_id, name)
       /\ UNCHANGED hist
    \/ /\ cmds < MaxCmds
       /\ \E guild_id \in Guilds, c \in ChannelIds : SetChannel(guild_id, c)
       /\ UNCHANGED hist
    \/ /\ cmds < MaxCmds
       /\ \E guild_id \in Guilds : OnGuildJoin(guild_id)
       /\ UNCHANGED hist
    \/ /\ cmds < MaxCmds
       /\ \E guild_id \in Guilds : OnGuildRemove(guild_id)
       /\ UNCHANGED hist
    \/ /\ cmds < MaxCmds
       /\ \E c \in ChannelIds : ChannelDelete(c)
       /\ UNCHANGED hist

Spec == Init /\ [][Next]_vars

\* ------------------------------------------------ the bot in one guild
\* The messages of setmessage: their text, and len(message).
Messages == {[text |-> "custom", len |-> MaxMessage],
             [text |-> "long", len |-> MaxMessage + 1]}

\* liststreamers reads the guild's data and sends an embed.
ListStreamers(guild_id) ==
    /\ Command
    /\ guild_id \in bot_guilds
    /\ UNCHANGED <<mongodb, fallback, guild_data, shared, bot_guilds, channels,
                   hist>>

\* setmessage: the streamer must be monitored and the message at most 1000
\* characters long; then set_custom_message.
SetMessage(guild_id, name, message) ==
    /\ Command
    /\ guild_id \in bot_guilds
    /\ IF /\ Monitored(ActiveStore, <<guild_id, Lower(name)>>)
          /\ ~(message.len > MaxMessage)
       THEN DbWrite(set_custom_message(fallback, guild_id, Lower(name),
                                       message.text),
                    Mongo_set_custom_message(mongodb, guild_id, Lower(name),
                                             message.text))
       ELSE UNCHANGED <<mongodb, fallback, guild_data, shared>>
    /\ UNCHANGED <<bot_guilds, channels, hist>>

\* Mutant of after_test: testnotification records the key as live.
after_test_tracking(tracker, key) == tracker \cup {key}

\* What testnotification does to the tracker: AdminCommands holds no
\* reference to it.
after_test(tracker, key) == tracker

\* testnotification: the streamer must be monitored, the channel set and
\* found; the message is rendered and sent, or an error is reported.
TestNotification(guild_id, name) ==
    /\ active_db # None
    /\ Suspended
    /\ guild_id \in bot_guilds
    /\ cmds' = cmds + 1
    /\ LET key == stream_key(guild_id, Lower(name))
           data == get_guild_data(ActiveStore, guild_id)
           ready == /\ Monitored(ActiveStore, key)
                    /\ data.notification_channel # None
                    /\ data.notification_channel \in channels
       IN  /\ \E sent \in BOOLEAN :
                tests' = IF ready /\ sent THEN tests \cup {key} ELSE tests
           /\ live_streams' = after_test(live_streams, key)
    /\ UNCHANGED <<active_db, is_async, mongodb, fallback, bot_guilds,
                   channels, running, cycles, pc, guild_ids, gi, guild_data,
                   shared, channel, si, cur, log, history, mongo_up, readies,
                   before, stale, fresh, denied>>
    /\ UNCHANGED <<service, functions, extra>>

\* Mutant of init_live_streams: the tracker of the process before is taken
\* over.
init_live_streams_restored(persisted) == persisted

\* Line 46: the tracker of a new process, whatever the tracker of the
\* process before held.
init_live_streams(persisted) == {}

\* The process ends and a new one starts: everything is as after
\* construction, and only the MongoDB collection is what it was.
Restart ==
    /\ Suspended
    /\ cmds' = cmds + 1
    /\ live_streams' = init_live_streams(live_streams)
    /\ before' = live_streams
    /\ active_db' = None
    /\ is_async' = FALSE
    /\ fallback' = <<>>
    /\ running' = 0
    /\ cycles' = 0
    /\ pc' = "idle"
    /\ guild_ids' = <<>>
    /\ gi' = 0
    /\ guild_data' = NoneDict
    /\ shared' = FALSE
    /\ channel' = None
    /\ si' = 0
    /\ cur' = None
    /\ log' = <<>>
    /\ last_obs' = [k \in Keys |-> "none"]
    /\ offline_seen' = [k \in Keys |-> TRUE]
    /\ undelivered' = [k \in Keys |-> FALSE]
    /\ readies' = 0
    /\ stale' = {}
    /\ fresh' = {}
    /\ tests' = {}
    /\ UNCHANGED <<mongodb, bot_guilds, channels, mongo_up, denied>>
    /\ UNCHANGED <<service, functions, extra>>

\* The keys of a guild that the registry lists and the tracker holds.
TrackedOf(guild_id) ==
    {k \in live_streams : k[1] = guild_id /\ Monitored(ActiveStore, k)}

\* The bot with the commands and events of guild 1, with the history of
\* its registry.
NextOne ==
    \/ OnReady /\ UNCHANGED hist
    \/ Tick /\ fresh' = {} /\ UNCHANGED <<before, stale, tests, denied>>
    \/ GuildStep /\ UNCHANGED hist
    \/ /\ \E outcome \in ApiOutcomes :
             /\ Lookup(outcome)
             /\ stale' = IF Observed(outcome) = "offline"
                         THEN stale \ {stream_key(guild_ids[gi], cur)}
                         ELSE stale
       /\ UNCHANGED <<before, fresh, tests, denied>>
    \/ (\E sent \in BOOLEAN : Send(sent)) /\ UNCHANGED hist
    \/ /\ cmds < MaxOne
       /\ \E name \in Names :
             /\ AddStreamer(1, name)
             /\ fresh' = IF /\ pc # "idle"
                            /\ ~Monitored(ActiveStore, <<1, Lower(name)>>)
                            /\ Monitored(IF is_async THEN mongodb'
                                         ELSE fallback', <<1, Lower(name)>>)
                         THEN fresh \cup {<<1, Lower(name)>>} ELSE fresh
       /\ UNCHANGED <<before, stale, tests, denied>>
    \/ /\ cmds < MaxOne
       /\ \E name \in Names :
             /\ RemoveStreamer(1, name)
             /\ stale' = stale \cup (TrackedOf(1) \cap {<<1, Lower(name)>>})
       /\ UNCHANGED <<before, fresh, tests, denied>>
    \/ cmds < MaxOne /\ SetChannel(1, "ch1") /\ UNCHANGED hist
    \/ cmds < MaxOne /\ OnGuildJoin(1) /\ UNCHANGED hist
    \/ /\ cmds < MaxOne
       /\ OnGuildRemove(1)
       /\ stale' = stale \cup TrackedOf(1)
       /\ UNCHANGED <<before, fresh, tests, denied>>
    \/ cmds < MaxOne /\ ListStreamers(1)
    \/ /\ cmds < MaxOne
       /\ \E name \in Names, m \in Messages : SetMessage(1, name, m)
    \/ cmds < MaxOne /\ \E name \in Names : TestNotification(1, name)
    \/ cmds < MaxOne /\ Restart

SpecOne == Init /\ [][NextOne]_vars

\* ------------------------------------------------- send_live_notification
\* A template is the sequence of what str.format parses it into: literal
\* text, a replacement field "{name}", or a brace that belongs to no named
\* field ("{" and "}" alone, the escapes "{{" and "}}", the field without
\* a name "{}").
Lit(s) == [kind |-> "text", text |-> s]
Field(n) == [kind |-> "field", text |-> n]
Brace(b) == [kind |-> "brace", text |-> b]

\* The characters of a piece of a template as the admin wrote them.
Written(tok) ==
    IF tok.kind = "field"
    THEN CASE tok.text = "streamer" -> "{streamer}"
           [] tok.text = "title" -> "{title}"
           [] tok.text = "game" -> "{game}"
           [] tok.text = "url" -> "{url}"
           [] OTHER -> "{user}"
    ELSE tok.text

\* config.DEFAULT_NOTIFICATION_MESSAGE; the first piece is the red circle.
DEFAULT_NOTIFICATION_MESSAGE ==
    <<Lit("(red circle) "), Field("streamer"), Lit(" is now live! Playing "),
      Field("game"), Lit(" - "), Field("title"), Lit(" "), Field("url")>>

\* The messages an admin gives to setmessage, with len(message).
Templates ==
    {[set |-> TRUE, len |-> 39,
      tokens |-> <<Field("streamer"), Lit(" live: "), Field("title"),
                   Lit(" ("), Field("game"), Lit(") "), Field("url")>>],
     [set |-> TRUE, len |-> 9, tokens |-> <<Lit("Live now!")>>],
     [set |-> TRUE, len |-> 21,
      tokens |-> <<Lit("Hey "), Field("user"), Lit(" "),
                   Field("streamer")>>],
     [set |-> TRUE, len |-> 12,
      tokens |-> <<Field("streamer"), Lit(" "), Brace("{")>>],
     [set |-> TRUE, len |-> 8,
      tokens |-> <<Brace("}"), Field("title")>>],
     [set |-> TRUE, len |-> 10,
      tokens |-> <<Brace("{{"), Field("game"), Brace("}}")>>],
     [set |-> TRUE, len |-> 7,
      tokens |-> <<Brace("{}"), Field("url")>>],
     [set |-> TRUE, len |-> MaxMessage + 1,
      tokens |-> <<Lit("long"), Field("title")>>]}

\* The fields of a stream of the Helix answer that the message shows: each
\* is absent, null, the empty string or a text.
FieldCases == {"absent", None, "", "text"}
Snapshot(title, game) ==
    [k \in {"type"} \cup (IF title = "absent" THEN {} ELSE {"title"})
                    \cup (IF game = "absent" THEN {} ELSE {"game_name"}) |->
        CASE k = "type" -> "live"
          [] k = "title" -> IF title = "text" THEN "Hello" ELSE title
          [] OTHER -> IF game = "text" THEN "Chess" ELSE game]
Snapshots == {Snapshot(t, g) : t \in FieldCases, g \in FieldCases}

\* dict.get(key, default): the default only when the key is absent.
Get(d, k, default) == IF k \in DOMAIN d THEN d[k] ELSE default

\* str(value), as str.format shows a value: None is shown as "None".
Str(v) == IF v = None THEN "None" ELSE v

\* f"https://twitch.tv/{streamer_name}"
Url(streamer_name) ==
    CASE streamer_name = "alice" -> "https://twitch.tv/alice"
      [] streamer_name = "bob" -> "https://twitch.tv/bob"
      [] OTHER -> "https://twitch.tv/"

\* The keyword arguments of the call of format, lines 211-216.
format_args(streamer_name, stream_data) ==
    [streamer |-> streamer_name,
     title |-> Get(stream_data, "title", "No title"),
     game |-> Get(stream_data, "game_name", "No category"),
     url |-> Url(streamer_name)]

\* What str.format makes of one piece: the text, the value of a named
\* argument, one brace for an escape; KeyError for another name, ValueError
\* for a single brace, IndexError for the field without a name.
format_piece(tok, kw) ==
    CASE tok.kind = "text" -> [ok |-> TRUE, text |-> tok.text]
      [] tok.kind = "field" ->
            IF tok.text \in DOMAIN kw
            THEN [ok |-> TRUE, text |-> Str(kw[tok.text])]
            ELSE [ok |-> FALSE, text |-> "KeyError"]
      [] tok.kind = "brace" /\ tok.text = "{{" -> [ok |-> TRUE, text |-> "{"]
      [] tok.kind = "brace" /\ tok.text = "}}" -> [ok |-> TRUE, text |-> "}"]
      [] tok.kind = "brace" /\ tok.text = "{}" ->
            [ok |-> FALSE, text |-> "IndexError"]
      [] OTHER -> [ok |-> FALSE, text |-> "ValueError"]

\* message_template.format(...): the pieces of the message, or the
\* exception.
format(template, kw) ==
    LET pieces == [i \in 1..Len(template) |-> format_piece(template[i], kw)]
    IN  IF \E i \in 1..Len(template) : ~pieces[i].ok THEN Raised
        ELSE [text |-> [i \in 1..Len(template) |-> pieces[i].text]]

\* Lines 204-208: the custom message of the streamer, or the default.
message_template(custom) ==
    IF custom.set THEN custom.tokens ELSE DEFAULT_NOTIFICATION_MESSAGE

\* Lines 204-216: the message of a notification.
render(custom, streamer_name, stream_data) ==
    format(message_template(custom), format_args(streamer_name, stream_data))

\* The streamer whose notifications are rendered.
Streamer == "alice"

\* setmessage for the streamer, who is monitored: the message is stored
\* unless it is longer than 1000 characters.
StoreTemplate(t) ==
    /\ delivery # "sending"
    /\ tmpl' = IF t.len > MaxMessage THEN tmpl ELSE t
    /\ snap' = NoneDict
    /\ msg' = Pending
    /\ delivery' = "none"
    /\ UNCHANGED <<bot, service, functions, steps, op>>

\* send_live_notification is called: the message is rendered and
\* channel.send awaited, or format raises and lines 243-244 log it.
Notify(stream_data) ==
    /\ delivery # "sending"
    /\ snap' = stream_data
    /\ msg' = render(tmpl, Streamer, stream_data)
    /\ delivery' = IF msg' = Raised THEN "dropped" ELSE "sending"
    /\ UNCHANGED <<bot, service, functions, steps, op, tmpl>>

\* channel.send comes back: the message is in the channel, or Discord
\* refused it and lines 243-244 log it.
Delivered(ok) ==
    /\ delivery = "sending"
    /\ delivery' = IF ok THEN "sent" ELSE "send_failed"
    /\ UNCHANGED <<bot, service, functions, steps, op, tmpl, snap, msg>>

NextRender ==
    \/ \E t \in Templates : StoreTemplate(t)
    \/ \E stream_data \in Snapshots : Notify(stream_data)
    \/ \E ok \in BOOLEAN : Delivered(ok)

SpecRender == Init /\ [][NextRender]_vars

\* ------------------------------------------- the per-account step, one key
\* What get_stream_data returns for the account in a cycle: None, a stream
\* that is live with its title, or an entry that is not live.
LiveWith(title) == [type |-> "live", title |-> title, game_name |-> "Chess"]
PollResults ==
    {NoneDict, LiveWith("Hello"), LiveWith("Again"),
     [type |-> "", title |-> "Hello", game_name |-> "Chess"]}

\* Mutant of snapshot_sent: the notification is made from the snapshot of
\* the notification before, when there was one.
snapshot_sent_stale(stream_data, earlier) ==
    IF earlier = NoneDict THEN stream_data ELSE earlier

\* Lines 187-189: send_live_notification gets the stream_data of this
\* lookup.
snapshot_sent(stream_data, earlier) == stream_data

\* One cycle polls alice of guild 1: lines 179-192, and for a new live
\* stream lines 203-216 up to the await of channel.send. The guild has a
\* channel and no custom message.
Poll(stream_data) ==
    /\ npc = "idle"
    /\ Len(trace) < MaxPolls
    /\ LET key == stream_key(1, Streamer)
           t == track(live_streams, key, stream_data)
           sent == snapshot_sent(stream_data, snap)
           m == render(tmpl, Streamer, sent)
       IN  /\ live_streams' = t.live_streams
           /\ IF t.notify
              THEN /\ snap' = sent
                   /\ msg' = m
                   /\ delivery' = IF m = Raised THEN "dropped" ELSE "sending"
                   /\ npc' = IF m = Raised THEN "idle" ELSE "send"
              ELSE UNCHANGED <<snap, msg, delivery, npc>>
           /\ trace' = Append(trace,
                              [data |-> stream_data,
                               notify |-> t.notify,
                               message |-> IF t.notify THEN m ELSE Pending,
                               tracked |-> key \in t.live_streams])
    /\ UNCHANGED <<active_db, is_async, mongodb, fallback, bot_guilds,
                   channels, running, cycles, pc, guild_ids, gi, guild_data,
                   shared, channel, si, cur, log, history, mongo_up, readies,
                   cmds, hist>>
    /\ UNCHANGED <<service, functions, tmpl, op>>

\* channel.send of the notification comes back, and the cycle goes on.
Deliver(ok) ==
    /\ npc = "send"
    /\ npc' = "idle"
    /\ delivery' = IF ok THEN "sent" ELSE "send_failed"
    /\ UNCHANGED <<bot, service, functions, trace, tmpl, snap, msg, op>>

NextNotify ==
    \/ \E stream_data \in PollResults : Poll(stream_data)
    \/ \E ok \in BOOLEAN : Deliver(ok)

SpecNotify == Init /\ [][NextNotify]_vars

\* ------------------------------------- add_streamer and remove_streamer
\* The guild whose list the calls change.
StoreGuild == 1

\* find_one({"guild_id": guild_id}): a document of the guild exists.
find_one_guild(store, guild_id) ==
    \E i \in 1..Len(store) : store[i].guild_id = guild_id

\* insert_one(guild_doc)
insert_one(store, doc) == Append(store, doc)

\* find_one({"guild_id": guild_id, "streamers": streamer_name}): a document
\* of the guild lists the name.
find_one_streamer(store, guild_id, streamer_name) ==
    \E i \in 1..Len(store) :
       store[i].guild_id = guild_id /\ Has(store[i].streamers, streamer_name)

\* Mutant of addToSet: $push, the value is appended whether or not the
\* array holds it.
push(seq, x) == Append(seq, x)

\* $addToSet: the value is appended unless the array holds it.
addToSet(seq, x) == IF Has(seq, x) THEN seq ELSE Append(seq, x)

\* update_one({"guild_id": guild_id}, {"$addToSet": {"streamers": name}}):
\* the first document of the guild is updated.
update_one_addToSet(store, guild_id, streamer_name) ==
    LET i == Find(store, guild_id)
    IN  IF i = 0 THEN store
        ELSE [store EXCEPT ![i].streamers = addToSet(@, streamer_name)]

\* What add_streamer and remove_streamer of the in-memory backend return.
add_streamer_returns(store, guild_id, streamer_name) ==
    LET st == create_guild(store, guild_id)
    IN  ~Has(st[Find(st, guild_id)].streamers, Lower(streamer_name))

remove_streamer_returns(store, guild_id, streamer_name) ==
    /\ Find(store, guild_id) # 0
    /\ Has(store[Find(store, guild_id)].streamers, Lower(streamer_name))

\* A call of a handler that is suspended in an await, and one that
\* returned. The name is the lowercased one of lines 61, 78, 112 and 140.
At(fn, at, name) == [fn |-> fn, at |-> at, name |-> name, result |-> FALSE]
Returned(fn, name, result) ==
    [fn |-> fn, at |-> "done", name |-> name, result |-> result]

\* What a step of the storage backends leaves alone.
StoreFrame ==
    /\ UNCHANGED <<active_db, is_async, bot_guilds, channels, live_streams,
                   running, cycles, pc, guild_ids, gi, guild_data, shared,
                   channel, si, cur, log, history, mongo_up, readies, hist>>
    /\ UNCHANGED <<service, functions, steps, rendering>>

\* A handler calls a function of the backend.
Calls(h) ==
    /\ active_db # None
    /\ op[h] = NoOp
    /\ cmds < MaxCalls
    /\ cmds' = cmds + 1

\* The in-memory backend: add_streamer and remove_streamer run without an
\* await.
MemAdd(h, streamer_name) ==
    /\ Calls(h)
    /\ ~is_async
    /\ fallback' = add_streamer(fallback, StoreGuild, streamer_name)
    /\ op' = [op EXCEPT
                 ![h] = Returned("add", Lower(streamer_name),
                                 add_streamer_returns(fallback, StoreGuild,
                                                      streamer_name))]
    /\ UNCHANGED mongodb
    /\ StoreFrame

MemRemove(h, streamer_name) ==
    /\ Calls(h)
    /\ ~is_async
    /\ fallback' = remove_streamer(fallback, StoreGuild, streamer_name)
    /\ op' = [op EXCEPT
                 ![h] = Returned("remove", Lower(streamer_name),
                                 remove_streamer_returns(fallback, StoreGuild,
                                                         streamer_name))]
    /\ UNCHANGED mongodb
    /\ StoreFrame

\* MongoDB, add_streamer: the call is suspended in the find_one of
\* create_guild.
MongoAdd(h, streamer_name) ==
    /\ Calls(h)
    /\ is_async
    /\ op' = [op EXCEPT ![h] = At("add", "create_find", Lower(streamer_name))]
    /\ UNCHANGED <<mongodb, fallback>>
    /\ StoreFrame

\* Lines 51-53: the find_one of create_guild is answered. An exception
\* ends create_guild, line 66, and add_streamer goes on.
CreateFind(h, db_ok) ==
    /\ op[h].at = "create_find"
    /\ op' = [op EXCEPT
                 ![h].at = IF db_ok /\ ~find_one_guild(mongodb, StoreGuild)
                           THEN "insert" ELSE "find"]
    /\ UNCHANGED <<mongodb, fallback, cmds>>
    /\ StoreFrame

\* Line 63: insert_one of the new document.
InsertGuild(h, db_ok) ==
    /\ op[h].at = "insert"
    /\ mongodb' = IF db_ok THEN insert_one(mongodb, NewGuild(StoreGuild))
                  ELSE mongodb
    /\ op' = [op EXCEPT ![h].at = "find"]
    /\ UNCHANGED <<fallback, cmds>>
    /\ StoreFrame

\* Lines 115-121: the find_one for the name is answered; the call returns
\* False when a document lists the name, and when the driver raises.
FindStreamer(h, db_ok) ==
    /\ op[h].at = "find"
    /\ op' = [op EXCEPT
                 ![h] = IF /\ db_ok
                           /\ ~find_one_streamer(mongodb, StoreGuild, @.name)
                        THEN At("add", "update", @.name)
                        ELSE Returned("add", @.name, FALSE)]
    /\ UNCHANGED <<mongodb, fallback, cmds>>
    /\ StoreFrame

\* Lines 124-132: update_one with $addToSet; the call returns whether the
\* document was modified.
UpdateAdd(h, db_ok) ==
    /\ op[h].at = "update"
    /\ mongodb' = IF db_ok
                  THEN update_one_addToSet(mongodb, StoreGuild, op[h].name)
                  ELSE mongodb
    /\ op' = [op EXCEPT ![h] = Returned("add", @.name, mongodb' # mongodb)]
    /\ UNCHANGED <<fallback, cmds>>
    /\ StoreFrame

\* MongoDB, remove_streamer, lines 140-154: one update_one with $pull and
\* $unset.
MongoRemove(h, streamer_name, db_ok) ==
    /\ Calls(h)
    /\ is_async
    /\ mongodb' = IF db_ok
                  THEN Mongo_remove_streamer(mongodb, StoreGuild,
                                             streamer_name)
                  ELSE mongodb
    /\ op' = [op EXCEPT ![h] = Returned("remove", Lower(streamer_name),
                                        mongodb' # mongodb)]
    /\ UNCHANGED fallback
    /\ StoreFrame

\* The handler has sent its answer, and the next command can come.
HandlerDone(h) ==
    /\ op[h].at = "done"
    /\ op' = [op EXCEPT ![h] = NoOp]
    /\ UNCHANGED <<mongodb, fallback, cmds>>
    /\ StoreFrame

NextStore ==
    \/ OnReady /\ UNCHANGED hist
    \/ \E h \in Handlers, n \in Names : MemAdd(h, n)
    \/ \E h \in Handlers, n \in Names : MemRemove(h, n)
    \/ \E h \in Handlers, n \in Names : MongoAdd(h, n)
    \/ \E h \in Handlers, db_ok \in BOOLEAN : CreateFind(h, db_ok)
    \/ \E h \in Handlers, db_ok \in BOOLEAN : InsertGuild(h, db_ok)
    \/ \E h \in Handlers, db_ok \in BOOLEAN : FindStreamer(h, db_ok)
    \/ \E h \in Handlers, db_ok \in BOOLEAN : UpdateAdd(h, db_ok)
    \/ \E h \in Handlers, n \in Names, db_ok \in BOOLEAN :
          MongoRemove(h, n, db_ok)
    \/ \E h \in Handlers : HandlerDone(h)

SpecStore == Init /\ [][NextStore]_vars

\* ------------------------------------------- the choice of the backend
\* MongoDB becomes unreachable, or reachable again: the ping of the next
\* connect() fails, or succeeds.
MongoChanges ==
    /\ mongo_up' = ~mongo_up
    /\ UNCHANGED <<active_db, is_async, mongodb, fallback, bot_guilds,
                   channels, live_streams, running, cycles, pc, guild_ids,
                   gi, guild_data, shared, channel, si, cur, log, history,
                   readies, cmds, hist>>
    /\ UNCHANGED <<service, functions, extra>>

\* The bot with the commands of guild 1, where readiness is signalled
\* again after a reconnection and MongoDB comes and goes.
NextBackend ==
    \/ OnReady /\ UNCHANGED hist
    \/ MongoChanges
    \/ /\ cmds < MaxCmds
       /\ \E name \in Names : AddStreamer(1, name)
       /\ UNCHANGED hist
    \/ /\ cmds < MaxCmds
       /\ \E name \in Names : RemoveStreamer(1, name)
       /\ UNCHANGED hist
    \/ cmds < MaxCmds /\ SetChannel(1, "ch1") /\ UNCHANGED hist
    \/ cmds < MaxCmds /\ ListStreamers(1)

SpecBackend == Init /\ [][NextBackend]_vars

\* ------------------------------------------------ who may use the commands
\* The members who send commands: the owner of the bot or another user,
\* with or without the administrator and the manage_guild permission.
owner_id == "owner"
Members == [id : {"owner", "other"}, administrator : BOOLEAN,
            manage_guild : BOOLEAN]

is_owner(user_id) == user_id = owner_id

\* Mutant of has_admin_permissions: every member passes.
has_admin_permissions_any(member) == TRUE

has_admin_permissions(member) ==
    IF is_owner(member.id) THEN TRUE
    ELSE IF member.administrator THEN TRUE
    ELSE IF member.manage_guild THEN TRUE
    ELSE FALSE

\* Lines 47-60: the wrapper answers with the Permission Denied embed and
\* returns; the command's function is not called.
Denied(command) ==
    /\ Command
    /\ denied' = denied \cup {command}
    /\ UNCHANGED <<mongodb, fallback, guild_data, shared, bot_guilds,
                   channels, before, stale, fresh, tests>>

\* The wrapper that admin_required() puts around the function of a command.
admin_required(member, command, func) ==
    IF has_admin_permissions(member) THEN func ELSE Denied(command)

\* A member sends one of the commands of AdminCommands in guild 1.
Invoke(member) ==
    \/ \E name \in Names :
          admin_required(member, "addstreamer",
                         AddStreamer(1, name) /\ UNCHANGED hist)
    \/ \E name \in Names :
          admin_required(member, "removestreamer",
                         RemoveStreamer(1, name) /\ UNCHANGED hist)
    \/ admin_required(member, "liststreamers", ListStreamers(1))
    \/ admin_required(member, "setchannel",
                      SetChannel(1, "ch1") /\ UNCHANGED hist)
    \/ \E name \in Names, m \in Messages :
          admin_required(member, "setmessage", SetMessage(1, name, m))
    \/ \E name \in Names :
          admin_required(member, "testnotification",
                         TestNotification(1, name))

NextPerm ==
    \/ OnReady /\ UNCHANGED hist
    \/ cmds < MaxOne /\ \E member \in Members : Invoke(member)

SpecPerm == Init /\ [][NextPerm]_vars

\* ------------------------------------------------ the keys of the tracker
\* Texts are sequences of characters. The guild ids and the streamer names
\* whose keys are built: the digits of one guild id begin the other, and
\* names begin with a digit or hold an underscore.
KeyGuilds == {1, 11}
KeyNames == {<<"a">>, <<"1", "a">>, <<"1", "_", "a">>}
Pairs == KeyGuilds \X KeyNames

\* str(n) of a natural number: its decimal digits.
RECURSIVE str(_)
str(n) ==
    LET digit(d) == <<"0", "1", "2", "3", "4", "5", "6", "7", "8", "9">>[d + 1]
    IN  IF n < 10 THEN <<digit(n)>>
        ELSE str(n \div 10) \o <<digit(n % 10)>>

\* Mutant of stream_key_text: the id and the name with nothing in between.
stream_key_joined(guild_id, streamer_name) == str(guild_id) \o streamer_name

\* Line 180: f"{guild_id}_{streamer_name}".
stream_key_text(guild_id, streamer_name) ==
    str(guild_id) \o <<"_">> \o streamer_name

\* What get_stream_data returns: a live stream, a stream that is not
\* live, None.
StreamData == {[type |-> "live"], [type |-> ""], NoneDict}

\* Lines 179-192 for one streamer of one guild whose channel is valid: the
\* key is built, the tracker is asked and changed, and the notification is
\* sent. The log keeps the poll and the notification.
PollPair(guild_id, streamer_name, stream_data) ==
    /\ cmds < MaxKeyPolls
    /\ cmds' = cmds + 1
    /\ LET t == track(live_streams, stream_key_text(guild_id, streamer_name),
                      stream_data)
           lg == Append(log, Entry(guild_id, streamer_name,
                                   IF is_live(stream_data) THEN "live"
                                   ELSE "offline"))
       IN  /\ live_streams' = t.live_streams
           /\ log' = IF t.notify
                     THEN Append(lg, Entry(guild_id, streamer_name, "notify"))
                     ELSE lg
    /\ UNCHANGED <<active_db, is_async, mongodb, fallback, bot_guilds,
                   channels, running, cycles, pc, guild_ids, gi, guild_data,
                   shared, channel, si, cur, history, mongo_up, readies,
                   hist>>
    /\ UNCHANGED <<service, functions, extra>>

NextKeys ==
    \E p \in Pairs, stream_data \in StreamData :
       PollPair(p[1], p[2], stream_data)

SpecKeys == Init /\ [][NextKeys]_vars

\* ------------------------------------------------ setmessage, step by step
\* In-memory backend: setmessage reads the guild, tests the name and the
\* length and stores the message without an await that suspends it.
MemSetMessage(h, streamer_name, message) ==
    /\ Calls(h)
    /\ ~is_async
    /\ LET stores == /\ Monitored(fallback,
                                  <<StoreGuild, Lower(streamer_name)>>)
                     /\ ~(message.len > MaxMessage)
       IN  /\ fallback' = IF stores
                          THEN set_custom_message(fallback, StoreGuild,
                                                  Lower(streamer_name),
                                                  message.text)
                          ELSE fallback
           /\ op' = [op EXCEPT ![h] = Returned("setmessage",
                                               Lower(streamer_name), stores)]
    /\ UNCHANGED mongodb
    /\ StoreFrame

\* MongoDB, lines 161: setmessage is suspended in get_guild_data.
MongoSetMessage(h, streamer_name) ==
    /\ Calls(h)
    /\ is_async
    /\ op' = [op EXCEPT ![h] = At("setmessage", "get", Lower(streamer_name))]
    /\ UNCHANGED <<mongodb, fallback>>
    /\ StoreFrame

\* Lines 161-172: get_guild_data is answered (None when the driver
\* raises); the handler answers with an error when the name is not in the
\* list or the message of the command is too long, and calls
\* set_custom_message otherwise.
MsgGet(h, message, db_ok) ==
    /\ op[h].at = "get"
    /\ op' = [op EXCEPT
                 ![h] = IF /\ db_ok
                           /\ Monitored(mongodb, <<StoreGuild, @.name>>)
                           /\ ~(message.len > MaxMessage)
                        THEN At("setmessage", "msg_create_find", @.name)
                        ELSE Returned("setmessage", @.name, FALSE)]
    /\ UNCHANGED <<mongodb, fallback, cmds>>
    /\ StoreFrame

\* mongodb.py lines 210 and 51-63: the create_guild of set_custom_message,
\* its find_one and then its insert_one; an exception ends create_guild
\* and set_custom_message goes on.
MsgCreateGuild(h, db_ok) ==
    /\ op[h].at \in {"msg_create_find", "msg_insert"}
    /\ IF op[h].at = "msg_create_find"
       THEN /\ op' = [op EXCEPT
                         ![h].at = IF /\ db_ok
                                      /\ ~find_one_guild(mongodb, StoreGuild)
                                   THEN "msg_insert" ELSE "msg_update"]
            /\ UNCHANGED mongodb
       ELSE /\ mongodb' = IF db_ok
                          THEN insert_one(mongodb, NewGuild(StoreGuild))
                          ELSE mongodb
            /\ op' = [op EXCEPT ![h].at = "msg_update"]
    /\ UNCHANGED <<fallback, cmds>>
    /\ StoreFrame

\* update_one with $set of custom_messages.<name> on the first document of
\* the guild.
update_one_set(store, guild_id, streamer_name, message) ==
    IF find_one_guild(store, guild_id)
    THEN [store EXCEPT ![Find(store, guild_id)].custom_messages =
                          DictSet(@, streamer_name, message)]
    ELSE store

\* mongodb.py lines 214-221: the update_one of set_custom_message; the
\* message is the one that passed the test of its length.
MsgUpdate(h, message, db_ok) ==
    /\ op[h].at = "msg_update"
    /\ ~(message.len > MaxMessage)
    /\ mongodb' = IF db_ok
                  THEN update_one_set(mongodb, StoreGuild, op[h].name,
                                      message.text)
                  ELSE mongodb
    /\ op' = [op EXCEPT
                 ![h] = Returned("setmessage", @.name,
                                 db_ok /\ find_one_guild(mongodb, StoreGuild))]
    /\ UNCHANGED <<fallback, cmds>>
    /\ StoreFrame

NextMsg ==
    \/ NextStore
    \/ \E h \in Handlers, n \in Names, m \in Messages : MemSetMessage(h, n, m)
    \/ \E h \in Handlers, n \in Names : MongoSetMessage(h, n)
    \/ \E h \in Handlers, m \in Messages, db_ok \in BOOLEAN :
          MsgGet(h, m, db_ok)
    \/ \E h \in Handlers, db_ok \in BOOLEAN : MsgCreateGuild(h, db_ok)
    \/ \E h \in Handlers, m \in Messages, db_ok \in BOOLEAN :
          MsgUpdate(h, m, db_ok)

SpecMsg == Init /\ [][NextMsg]_vars

\* ------------------------------------------- the two backends side by side
\* The functions of a backend that change it.
StoreFns == {"create_guild", "delete_guild", "add_streamer",
             "remove_streamer", "set_notification_channel",
             "set_custom_message"}

\* A call of DatabaseService: the store after it, and what it returns.
DatabaseService_call(store, fn, guild_id, streamer_name, value) ==
    CASE fn = "create_guild" ->
            [store |-> create_guild(store, guild_id),
             result |-> Find(store, guild_id) = 0]
      [] fn = "delete_guild" ->
            [store |-> delete_guild(store, guild_id),
             result |-> Find(store, guild_id) # 0]
      [] fn = "add_streamer" ->
            [store |-> add_streamer(store, guild_id, streamer_name),
             result |-> add_streamer_returns(store, guild_id, streamer_name)]
      [] fn = "remove_streamer" ->
            [store |-> remove_streamer(store, guild_id, streamer_name),
             result |-> remove_streamer_returns(store, guild_id,
                                                streamer_name)]
      [] fn = "set_notification_channel" ->
            [store |-> set_notification_channel(store, guild_id, value),
             result |-> TRUE]
      [] OTHER ->
            [store |-> set_custom_message(store, guild_id, streamer_name,
                                          value),
             result |-> TRUE]

\* A call of MongoDBService that no other call interleaves with and that
\* the driver answers: the collection after it, and what it returns
\* (inserted or not, deleted_count > 0, modified_count > 0, and for the
\* two setters modified_count > 0 or matched_count > 0).
MongoDBService_call(store, fn, guild_id, streamer_name, value) ==
    CASE fn = "create_guild" ->
            [store |-> Mongo_create_guild(store, guild_id),
             result |-> ~find_one_guild(store, guild_id)]
      [] fn = "delete_guild" ->
            [store |-> Mongo_delete_guild(store, guild_id),
             result |-> Mongo_delete_guild(store, guild_id) # store]
      [] fn = "add_streamer" ->
            LET st == Mongo_create_guild(store, guild_id)
                name == Lower(streamer_name)
                found == find_one_streamer(st, guild_id, name)
                after == IF found THEN st
                         ELSE update_one_addToSet(st, guild_id, name)
            IN  [store |-> after, result |-> ~found /\ after # st]
      [] fn = "remove_streamer" ->
            [store |-> Mongo_remove_streamer(store, guild_id, streamer_name),
             result |-> Mongo_remove_streamer(store, guild_id, streamer_name)
                           # store]
      [] fn = "set_notification_channel" ->
            [store |-> Mongo_set_notification_channel(store, guild_id, value),
             result |-> find_one_guild(Mongo_create_guild(store, guild_id),
                                       guild_id)]
      [] OTHER ->
            [store |-> Mongo_set_custom_message(store, guild_id,
                                                streamer_name, value),
             result |-> find_one_guild(Mongo_create_guild(store, guild_id),
                                       guild_id)]

\* The values of a call: a channel for set_notification_channel, a message
\* for set_custom_message.
ValuesOf(fn) ==
    CASE fn = "set_notification_channel" -> ChannelIds
      [] fn = "set_custom_message" -> {"custom", "other"}
      [] OTHER -> {None}

\* The same call is made on the in-memory backend (its result is kept for
\* caller h1) and on the MongoDB backend (for caller h2), one after the
\* other.
CallBoth(fn, guild_id, streamer_name, value) ==
    /\ cmds < MaxCalls
    /\ cmds' = cmds + 1
    /\ LET mem == DatabaseService_call(fallback, fn, guild_id, streamer_name,
                                       value)
           mongo == MongoDBService_call(mongodb, fn, guild_id, streamer_name,
                                        value)
       IN  /\ fallback' = mem.store
           /\ mongodb' = mongo.store
           /\ op' = [h \in Handlers |->
                        Returned(fn, Lower(streamer_name),
                                 IF h = "h1" THEN mem.result
                                 ELSE mongo.result)]
    /\ StoreFrame

NextBoth ==
    \E fn \in StoreFns, guild_id \in Guilds, streamer_name \in Names :
       \E value \in ValuesOf(fn) :
          CallBoth(fn, guild_id, streamer_name, value)

SpecBoth == Init /\ [][NextBoth]_vars

\* ------------------------------------------------- TwitchService, stepwise
\* The function a caller calls, and what its request can come to.
Fn(c) == IF c = "poll" THEN "get_stream_data" ELSE "get_user_data"
Statuses(c) == (IF c = "poll" THEN ApiOutcomes ELSE UserOutcomes)
                  \ {"token_failure"}

\* _make_api_request returns, and with it the function that called it.
Return(c, outcome) ==
    call' = [call EXCEPT
                ![c].at = "idle",
                ![c].result = IF call[c].fn = "get_stream_data"
                              THEN get_stream_data(outcome)
                              ELSE get_user_data(outcome)]

\* A caller calls its function, which calls _make_api_request:
\* _ensure_valid_token sends a token request or none is needed and the
\* request is sent. check_streams calls for the next streamer of its list,
\* and after the last one a new cycle starts at the first.
Begin(c) ==
    /\ call[c].at = "idle"
    /\ IF needs_token(access_token, token_expires_at, now)
       THEN call' = [call EXCEPT ![c] = [fn |-> Fn(c), at |-> "token",
                                         gets |-> 0, posts |-> 1,
                                         result |-> Pending]]
       ELSE call' = [call EXCEPT ![c] = [fn |-> Fn(c), at |-> "get",
                                         gets |-> 1, posts |-> 0,
                                         result |-> Pending]]
    /\ IF c = "poll"
       THEN /\ pos' = IF pos < Len(PollNames) THEN pos + 1 ELSE 1
            /\ limited' = IF pos < Len(PollNames) THEN limited ELSE {}
       ELSE UNCHANGED <<pos, limited>>
    /\ UNCHANGED <<access_token, token_expires_at, now, issued, granted, bot,
                   extra,
                   functions>>

\* _get_app_access_token comes back: with a token (lines 43-50), or with
\* False after another status or an exception (lines 51-57). After a token
\* the request is sent, for the first time or again; without one
\* _make_api_request returns None.
TokenResponse(c, ok, expires_in) ==
    /\ call[c].at \in {"token", "refresh"}
    /\ IF ok
       THEN /\ access_token' = "token"
            /\ token_expires_at' = <<expires_at(now, expires_in)>>
            /\ issued' = now
            /\ granted' = expires_in
            /\ call' = [call EXCEPT
                           ![c].at = IF call[c].at = "token" THEN "get"
                                     ELSE "retry",
                           ![c].gets = @ + 1]
       ELSE /\ Return(c, "token_failure")
            /\ UNCHANGED <<access_token, token_expires_at, issued, granted>>
    /\ UNCHANGED <<now, pos, limited, bot, extra, functions>>

\* What _make_api_request does next: it returns, it refreshes the token,
\* or it sends the request again.
Continue(c, what, status) ==
    CASE what = "refresh" ->
             call' = [call EXCEPT ![c].at = "refresh", ![c].posts = @ + 1]
      [] what = "resend" ->
             call' = [call EXCEPT ![c].at = "get", ![c].gets = @ + 1]
      [] OTHER -> Return(c, status)

\* The answer to the request comes back: lines 83-111.
GetResponse(c, status) ==
    /\ call[c].at = "get"
    /\ status \in Statuses(c)
    /\ Continue(c, on_status(status), status)
    /\ limited' = IF c = "poll" /\ status = "status_429"
                  THEN limited \cup {pos} ELSE limited
    /\ UNCHANGED <<access_token, token_expires_at, now, pos, issued, granted,
                   bot, extra, functions>>

\* The answer to the retry comes back: lines 92-97.
RetryResponse(c, status) ==
    /\ call[c].at = "retry"
    /\ status \in Statuses(c)
    /\ Continue(c, on_retry_status(status), status)
    /\ limited' = IF c = "poll" /\ status = "status_429"
                  THEN limited \cup {pos} ELSE limited
    /\ UNCHANGED <<access_token, token_expires_at, now, pos, issued, granted,
                   bot, extra, functions>>

\* Time passes.
Advance ==
    /\ now < MaxTime
    /\ now' = now + 1
    /\ UNCHANGED <<access_token, token_expires_at, call, pos, issued, granted,
                   limited, bot, extra, functions>>

NextApi ==
    \/ \E c \in Callers : Begin(c)
    \/ \E c \in Callers, ok \in BOOLEAN, e \in ExpiresIn :
          TokenResponse(c, ok, e)
    \/ \E c \in Callers, status \in ApiOutcomes \cup UserOutcomes :
          GetResponse(c, status)
    \/ \E c \in Callers, status \in ApiOutcomes \cup UserOutcomes :
          RetryResponse(c, status)
    \/ Advance

SpecApi == Init /\ [][NextApi]_vars

\* ----------------------------------------- TwitchService, call by call
\* get_stream_data or get_user_data is called and returns.
CallSingle(fn, outcome) ==
    /\ outcome \in (IF fn = "get_stream_data" THEN ApiOutcomes
                    ELSE UserOutcomes)
    /\ last' = [fn |-> fn, outcome |-> outcome,
                result |-> IF fn = "get_stream_data"
                           THEN get_stream_data(outcome)
                           ELSE get_user_data(outcome)]
    /\ UNCHANGED <<batch, bot, extra, service>>

\* The lengths of the lists get_multiple_streams is called with.
BatchSizes == {0, 1, ChunkSize - 1, ChunkSize, ChunkSize + 1, 2 * ChunkSize,
               2 * ChunkSize + 1}

\* get_multiple_streams is called with n names: an empty list returns at
\* once (lines 143-144), otherwise the request for the first chunk is sent.
CallBatch(n) ==
    /\ batch.done
    /\ LET usernames == [i \in 1..n |-> i]
       IN  batch' = [usernames |-> usernames,
                     sent |-> IF n = 0 THEN <<>>
                              ELSE <<username_chunks(usernames)[1]>>,
                     outcomes |-> <<>>,
                     answers |-> <<>>,
                     all_streams |-> <<>>,
                     done |-> n = 0,
                     result |-> <<>>]
    /\ UNCHANGED <<last, bot, extra, service>>

\* The request for a chunk comes back: lines 152-157. The request for the
\* next chunk is sent, or all_streams is returned.
ChunkResponse(outcome) ==
    /\ ~batch.done
    /\ LET chunks == username_chunks(batch.usernames)
           k == Len(batch.sent)
           response == batch_response(chunks[k], outcome)
           all == extend(batch.all_streams, response)
       IN  batch' = [batch EXCEPT
                        !.outcomes = Append(@, outcome),
                        !.answers = Append(@, IF response = NoneDict THEN <<>>
                                              ELSE response.data),
                        !.all_streams = all,
                        !.sent = IF k < Len(chunks)
                                 THEN Append(@, chunks[k + 1]) ELSE @,
                        !.done = ~(k < Len(chunks)),
                        !.result = IF k < Len(chunks) THEN <<>> ELSE all]
    /\ UNCHANGED <<last, bot, extra, service>>

NextFns ==
    \/ \E fn \in {"get_stream_data", "get_user_data"},
          outcome \in ApiOutcomes \cup UserOutcomes : CallSingle(fn, outcome)
    \/ \E n \in BatchSizes : CallBatch(n)
    \/ \E outcome \in BatchOutcomes : ChunkResponse(outcome)

SpecFns == Init /\ [][NextFns]_vars

\* The awaits of a cycle come back: aiohttp, the MongoDB driver and
\* discord.py answer or time out.
FairSpec ==
    /\ Spec
    /\ WF_vars(GuildStep /\ UNCHANGED hist)
    /\ WF_vars((\E outcome \in ApiOutcomes : Lookup(outcome))
                  /\ UNCHANGED hist)
    /\ WF_vars((\E sent \in BOOLEAN : Send(sent)) /\ UNCHANGED hist)

\* ------------------------------------------- the cycles of one guild, fair
\* The bot in guild 1 with the commands that change what a cycle polls.
NextLive ==
    \/ OnReady /\ UNCHANGED hist
    \/ Tick /\ UNCHANGED hist
    \/ GuildStep /\ UNCHANGED hist
    \/ (\E outcome \in ApiOutcomes : Lookup(outcome)) /\ UNCHANGED hist
    \/ (\E sent \in BOOLEAN : Send(sent)) /\ UNCHANGED hist
    \/ /\ cmds < MaxCmds
       /\ \E name \in Names : AddStreamer(1, name)
       /\ UNCHANGED hist
    \/ /\ cmds < MaxCmds
       /\ \E name \in Names : RemoveStreamer(1, name)
       /\ UNCHANGED hist
    \/ cmds < MaxCmds /\ SetChannel(1, "ch1") /\ UNCHANGED hist

\* The loop fires every STREAM_CHECK_INTERVAL minutes and the awaits of a
\* cycle come back; the reads of the database succeed again and again, and so do
\* the lookups of every account, which find its stream live.
FairLive ==
    /\ Init /\ [][NextLive]_vars
    /\ WF_vars(Tick /\ pc' = "guild" /\ UNCHANGED hist)
    /\ SF_vars(GuildStep /\ pc' = "lookup" /\ UNCHANGED hist)
    /\ WF_vars((\E outcome \in ApiOutcomes : Lookup(outcome))
                  /\ UNCHANGED hist)
    /\ \A n \in LowerNames :
          SF_vars(Lookup("live") /\ cur = n /\ UNCHANGED hist)
    /\ WF_vars((\E sent \in BOOLEAN : Send(sent)) /\ UNCHANGED hist)

\* ------------------------------------------------------------- properties
\* The key of the lookup or of the send the cycle is suspended in.
CurKey == stream_key(guild_ids[gi], cur)

\* The calls of send_live_notification for a key that a log holds.
NotifyCount(lg, key) ==
    Cardinality({i \in 1..Len(lg) :
                    /\ lg[i].event = "notify"
                    /\ stream_key(lg[i].guild, lg[i].streamer) = key})

\* This step calls send_live_notification for the key, once.
Notifies(key) == NotifyCount(log', key) = NotifyCount(log, key) + 1

\* This step calls send_live_notification for no key.
NoNotification ==
    \A k \in Keys : NotifyCount(log', k) <= NotifyCount(log, k)

\* The log holds a poll of the key with this observation at position i.
PollAt(i, key, obs) ==
    /\ i \in 1..Len(log)
    /\ log[i].event = obs
    /\ stream_key(log[i].guild, log[i].streamer) = key

\* C1: the notifications of a key are as many as the offline->live edges of
\* its observations, failed lookups left out. The two counts agree on every
\* sequence of polls exactly when they grow together at every poll: a poll
\* notifies if and only if it observes live and the last live or offline
\* observation of the key was not live.
C1_NotificationsEqualEdges ==
    [][\A o \in ApiOutcomes :
          Lookup(o) =>
             (Notifies(CurKey)
                 <=> (Observed(o) = "live" /\ last_obs[CurKey] # "live"))]_vars

\* C2: a failed lookup leaves the key in the tracker if it was there and
\* out of it if it was not, and notifies nobody.
C2_FailedLookupIsNoOp ==
    [][\A o \in FailedOutcomes :
          Lookup(o) =>
             /\ (CurKey \in live_streams') = (CurKey \in live_streams)
             /\ NoNotification]_vars

\* C3: a key that has been notified is notified again only after a poll
\* observed it offline.
C3_OfflineBetweenNotifications ==
    [][\A o \in ApiOutcomes :
          Lookup(o) /\ Notifies(CurKey) => offline_seen[CurKey]]_vars

\* C4: a poll that observes live for a key in the tracker notifies nobody
\* and leaves the tracker as it is. A poll that observes live leaves the key
\* in the tracker, and only a poll of the key that does not observe live
\* takes it out: so the next poll of the key, when it observes live again,
\* notifies nobody.
C4_LiveOnTrackedKeyIsNoOp ==
    [][/\ Lookup("live") /\ CurKey \in live_streams
            => NoNotification /\ live_streams' = live_streams
       /\ Lookup("live") => CurKey \in live_streams'
       /\ \A k \in Keys :
             k \in live_streams /\ k \notin live_streams'
                => /\ pc = "lookup"
                   /\ CurKey = k
                   /\ \E o \in ApiOutcomes \ {"live"} : Lookup(o)]_vars

\* C4 witness: a poll observed a key live that was in the tracker after an
\* earlier live observation, and the cycle did not notify it.
C4_Witness ==
    \E k \in Keys, i \in 1..Len(log) :
       /\ PollAt(i, k, "live")
       /\ log[i].tracked
       /\ log[i].prior = "live"
       /\ NotifyCount(log, k) = 0
       /\ k \in live_streams

\* C5: a poll that observes live for a key whose last observation was
\* offline, with no notification since, puts the key into the tracker and
\* notifies it once, and notifies no other key.
C5_RecoveryNotifiesOnce ==
    [][Lookup("live") /\ last_obs[CurKey] = "offline" /\ offline_seen[CurKey]
          => /\ CurKey \notin live_streams
             /\ CurKey \in live_streams'
             /\ Notifies(CurKey)
             /\ \A k \in Keys \ {CurKey} :
                   NotifyCount(log', k) = NotifyCount(log, k)]_vars

\* C5 witness: a key observed offline before was observed live, notified
\* once and is in the tracker.
C5_Witness ==
    \E k \in Keys, i \in 1..Len(log) :
       /\ PollAt(i, k, "live")
       /\ log[i].prior = "offline"
       /\ ~log[i].tracked
       /\ NotifyCount(log, k) = 1
       /\ k \in live_streams

\* C6: a poll that observes offline notifies nobody; it takes the key out
\* of the tracker, which is no change when the key was not in it.
C6_OfflineNeverNotifies ==
    [][\A o \in OfflineOutcomes :
          Lookup(o) =>
             /\ NoNotification
             /\ live_streams' = live_streams \ {CurKey}]_vars

\* C6 witness: a poll observed offline a key that was in the tracker, the
\* key is out of it and the cycle did not notify it.
C6_Witness ==
    \E k \in Keys, i \in 1..Len(log) :
       /\ PollAt(i, k, "offline")
       /\ log[i].tracked
       /\ NotifyCount(log, k) = 0
       /\ k \notin live_streams

\* C7: a key is in the tracker if and only if its last live or offline
\* observation was live.
C7_TrackedIffLastObservedLive ==
    \A k \in Keys : (k \in live_streams) <=> (last_obs[k] = "live")

\* The cycle's lookup of another streamer of the guild failed.
FailedEarlier(guild_id, streamer_name) ==
    \E i \in 1..Len(log) :
       /\ log[i].event = "failed"
       /\ log[i].guild = guild_id
       /\ log[i].streamer # streamer_name

\* C8: after a failed lookup of a streamer, and after a failed delivery
\* for it, the cycle looks up the next streamer of the guild's list when
\* there is one; and a streamer observed live and not in the tracker is
\* notified also when the lookup of another streamer of the guild failed
\* earlier in the cycle.
C8_FailedLookupDoesNotStopNextAccount ==
    [][/\ \A o \in ApiOutcomes :
             Lookup(o) =>
                /\ (o \in FailedOutcomes /\ si < Len(guild_data.streamers))
                      => (/\ pc' = "lookup"
                          /\ gi' = gi
                          /\ cur' = guild_data.streamers[si + 1])
                /\ (/\ o = "live"
                    /\ CurKey \notin live_streams
                    /\ FailedEarlier(guild_ids[gi], cur))
                      => Notifies(CurKey)
       /\ (Send(FALSE) /\ si < Len(guild_data.streamers))
             => (/\ pc' = "lookup"
                 /\ gi' = gi
                 /\ cur' = guild_data.streamers[si + 1])]_vars

\* C8 witness: in one cycle the lookup of one streamer of a guild failed
\* and another streamer of the guild was notified after it.
C8_Witness ==
    \E i, j \in 1..Len(log) :
       /\ i < j
       /\ log[i].event = "failed"
       /\ log[j].event = "notify"
       /\ log[j].guild = log[i].guild
       /\ log[j].streamer # log[i].streamer

\* C9: a cycle ends only in the last guild of guild_ids, after every guild
\* before it was skipped or polled, whatever failed on the way.
C9_CycleReachesEveryGuild ==
    [][pc # "idle" /\ pc' = "idle"
          => /\ gi = Len(guild_ids)
             /\ \A i \in 1..(gi - 1) :
                   \E j \in 1..Len(log) : log[j].guild = guild_ids[i]]_vars

\* C9 witness: in one cycle the read of one guild's data failed and a
\* streamer of another guild was polled and notified after it.
C9_Witness ==
    \E i, j \in 1..Len(log) :
       /\ i < j
       /\ log[i].event = "db_error"
       /\ log[j].event = "notify"
       /\ log[j].guild # log[i].guild

\* C10: a failed delivery is swallowed and not repeated, the key stays in
\* the tracker, and from then until a poll observes the key offline the key
\* stays in the tracker and a poll that observes it live notifies nobody.
C10_FailedDeliveryKeepsKeyUntilOffline ==
    [][/\ Send(FALSE) => CurKey \in live_streams' /\ NoNotification
       /\ \A k \in Keys :
             undelivered[k] /\ undelivered'[k] => k \in live_streams'
       /\ Lookup("live") /\ undelivered[CurKey] => NoNotification]_vars

\* The guild the cycle is at is in the store with no notification channel
\* or with no streamer.
Unconfigured ==
    LET data == get_guild_data(ActiveStore, guild_ids[gi])
    IN  /\ data # NoneDict
        /\ Len(data.streamers) = 0 \/ data.notification_channel = None

\* C11: the cycle passes a guild that has no notification channel or no
\* streamer without a lookup: it goes on to the next guild or ends, the
\* tracker stays as it is and nobody is notified. The tracker changes, and
\* a notification is sent, only in the lookup of a streamer of the guild
\* that is being polled.
C11_UnconfiguredGuildIsSkipped ==
    [][/\ (GuildStep /\ Unconfigured)
             => /\ pc' \in {"guild", "idle"}
                /\ pc' = "guild" => gi' = gi + 1
                /\ live_streams' = live_streams
                /\ NoNotification
       /\ \A k \in Keys :
             (k \in live_streams) # (k \in live_streams')
                => pc = "lookup" /\ k = CurKey
       /\ \A k \in Keys :
             Notifies(k) => pc = "lookup" /\ k = CurKey]_vars

\* C11 witness: in one cycle a guild with streamers and no notification
\* channel was passed, no streamer of it was polled, and a streamer of
\* another guild was notified after it.
C11_Witness ==
    \E i, j \in 1..Len(log) :
       /\ i < j
       /\ log[i].event = "no_channel"
       /\ log[j].event = "notify"
       /\ \A n \in 1..Len(log) : log[n].guild = log[i].guild => n = i

\* C12: at most one execution of check_streams is in progress, and the
\* loop fires only when none is.
C12_CyclesNeverOverlap ==
    [][/\ cycles' <= 1
       /\ (cycles' = 1) <=> (pc' # "idle")
       /\ Tick => cycles = 0 /\ pc = "idle"]_vars

\* C12 witness: a cycle is suspended in a lookup or in a delivery, it
\* polled a key that an earlier cycle observed, and it is the only one.
C12_Witness ==
    /\ cycles = 1
    /\ pc \in {"lookup", "send"}
    /\ \E i \in 1..Len(log) : log[i].prior \in {"live", "offline"}

\* C13: the loop fires only after on_ready initialised the database
\* wrapper, and after on_ready, however often it ran, one task of the loop
\* runs.
C13_OneLoopAfterReady ==
    [][/\ Tick => active_db # None /\ readies > 0
       /\ pc' # "idle" => active_db' # None
       /\ OnReady => running' = 1
       /\ (readies' > 0) <=> (running' = 1)
       /\ running' <= 1]_vars

\* C13 witness: on_ready ran more than once, one task of the loop runs and
\* a cycle is in progress.
C13_Witness == readies = 2 /\ running = 1 /\ pc = "lookup"

\* C14: no step stops the loop, whatever the cycle logged; when no cycle
\* is in progress the loop can fire; and a cycle in progress ends.
C14_LoopNeverStops ==
    /\ [][running' >= running]_vars
    /\ [](running > 0 /\ pc = "idle" => ENABLED Tick)
    /\ (pc # "idle") ~> (pc = "idle")

\* C14 witness: a cycle polls a key for which a delivery failed in an
\* earlier cycle.
C14_Witness == pc = "lookup" /\ undelivered[CurKey] /\ running = 1

\* The answers that are a 200.
Ok200 == {"live", "not_live", "empty", "user"}

\* C15: a 401 to the request makes the call send one token request and no
\* API request; when the token request fails the call returns None after
\* its one API request; when it succeeds the call sends the request once
\* more, and whatever the answer to the retry the call returns, with None
\* unless the answer is a 200. A call sends at most two API requests, and
\* no token request after the retry.
C15_OneRefreshOneRetry ==
    [][\A c \in Callers :
          /\ GetResponse(c, "status_401")
                => /\ call'[c].at = "refresh"
                   /\ call'[c].posts = call[c].posts + 1
                   /\ call'[c].gets = 1
          /\ \A e \in ExpiresIn :
                /\ (TokenResponse(c, FALSE, e) /\ call[c].at = "refresh")
                      => /\ call'[c].at = "idle"
                         /\ call'[c].result = NoneDict
                         /\ call'[c].gets = 1
                /\ (TokenResponse(c, TRUE, e) /\ call[c].at = "refresh")
                      => /\ call'[c].at = "retry"
                         /\ call'[c].gets = 2
          /\ \A status \in Statuses(c) :
                RetryResponse(c, status)
                   => /\ call'[c].at = "idle"
                      /\ call'[c].gets = 2
                      /\ call'[c].posts = call[c].posts
                      /\ status \notin Ok200 => call'[c].result = NoneDict
          /\ call'[c].gets <= 2
          /\ call[c].at = "retry" => call'[c].at \in {"retry", "idle"}]_vars

\* C15 witness: a call returned None after a 401, a refresh and a retry
\* that was not answered with 200: two API requests and one token request.
C15_Witness ==
    \E c \in Callers :
       /\ call[c].at = "idle"
       /\ call[c].gets = 2
       /\ call[c].posts = 1
       /\ call[c].result = NoneDict

\* C16: a 429 ends the call: it returns None and sends nothing more, so a
\* 429 to the first request makes it the only one. check_streams sends no
\* request for a position of its list that was answered 429 in the cycle.
C16_RateLimitEndsTheCall ==
    [][/\ \A c \in Callers :
             /\ GetResponse(c, "status_429")
                   => /\ call'[c].at = "idle"
                      /\ call'[c].result = NoneDict
                      /\ call'[c].gets = 1
                      /\ call'[c].posts = call[c].posts
             /\ RetryResponse(c, "status_429")
                   => /\ call'[c].at = "idle"
                      /\ call'[c].result = NoneDict
                      /\ call'[c].gets = call[c].gets
                      /\ call'[c].posts = call[c].posts
       /\ call'["poll"].at \in {"token", "get", "refresh", "retry"}
             => pos' \notin limited']_vars

\* C16 witness: the first streamer of the list was answered 429, its call
\* returned None after one request, and the request for the next streamer
\* is out.
C16_Witness ==
    /\ 1 \in limited
    /\ pos = 2
    /\ call["poll"].at = "get"
    /\ call["poll"].gets = 1

\* The token requests in flight.
InFlight == {c \in Callers : call[c].at \in {"token", "refresh"}}

\* C17: at most one token request is in flight.
C17_OneTokenRequestInFlight == Cardinality(InFlight) <= 1

\* C18: a call fetches a token before its request when no token is held,
\* or when the time is at or after the time the held token was obtained
\* plus its expires_in minus 60; the request goes out when the token is
\* there. A call made earlier sends its request with the held token and no
\* token request.
C18_ProactiveRefresh ==
    [][\A c \in Callers :
          /\ Begin(c) =>
                IF access_token = None \/ now >= issued + granted - Margin
                THEN /\ call'[c].at = "token"
                     /\ call'[c].posts = 1
                     /\ call'[c].gets = 0
                ELSE /\ call'[c].at = "get"
                     /\ call'[c].posts = 0
                     /\ call'[c].gets = 1
                     /\ access_token' = access_token
          /\ \A e \in ExpiresIn :
                (TokenResponse(c, TRUE, e) /\ call[c].at = "token")
                   => /\ call'[c].at = "get"
                      /\ call'[c].gets = 1
                      /\ access_token' # None
                      /\ issued' = now /\ granted' = e]_vars

\* C18 witness: a token is held that was obtained one time unit before its
\* margin; a call made before that sent its request without a token
\* request, and a call made at that time waits for a new token.
C18_Witness ==
    /\ access_token # None
    /\ granted = Margin + 1
    /\ now = issued + 1
    /\ \E c, d \in Callers :
          /\ call[c].at = "get" /\ call[c].posts = 0
          /\ call[d].at = "token" /\ call[d].gets = 0

RECURSIVE Flatten(_)
\* The concatenation of the sequences of a sequence.
Flatten(seqs) ==
    IF Len(seqs) = 0 THEN <<>> ELSE Head(seqs) \o Flatten(Tail(seqs))

\* C19: whatever the request comes to, get_stream_data and get_user_data
\* return a record of the response or None, and get_multiple_streams
\* returns a list, with the streams of the chunks that were answered: no
\* call ends with an exception.
C19_LookupsNeverRaise ==
    /\ last.result # Raised
    /\ last.outcome \in FailedOutcomes => last.result = NoneDict
    /\ batch.done => batch.result = Flatten(batch.answers)

\* C19 witness: a request of get_stream_data or get_user_data ended with
\* a network exception and the function returned None; a request of
\* get_multiple_streams failed and the function returned the streams of
\* another chunk.
C19_Witness ==
    /\ last.outcome = "network_error"
    /\ last.result = NoneDict
    /\ batch.done
    /\ \E i \in 1..Len(batch.outcomes) : batch.outcomes[i] \in FailedOutcomes
    /\ Len(batch.result) > 0

\* C20: the chunks requested are consecutive pieces of the list of names,
\* each of 1 to 100 names, one request for each; all_streams is the
\* concatenation, in the order of the chunks, of the streams of the answers
\* so far, a failed request adding none; and the call returns when the
\* chunks cover the list, with all_streams.
C20_ChunksAndConcatenation ==
    /\ \A i \in 1..Len(batch.sent) :
          Len(batch.sent[i]) >= 1 /\ Len(batch.sent[i]) <= ChunkSize
    /\ Flatten(batch.sent)
          = SubSeq(batch.usernames, 1, Len(Flatten(batch.sent)))
    /\ batch.all_streams = Flatten(batch.answers)
    /\ \A i \in 1..Len(batch.outcomes) :
          batch.outcomes[i] \in FailedOutcomes => batch.answers[i] = <<>>
    /\ IF ~batch.done
       THEN Len(batch.sent) = Len(batch.answers) + 1
       ELSE /\ Len(batch.sent) = Len(batch.answers)
            /\ Flatten(batch.sent) = batch.usernames
            /\ batch.result = Flatten(batch.answers)

\* C20 witness: a list of 201 names went out in three chunks, the second
\* request failed, and the call returned the streams of the first and of
\* the third chunk.
C20_Witness ==
    /\ Len(batch.usernames) = 2 * ChunkSize + 1
    /\ batch.done
    /\ Len(batch.sent) = 3
    /\ batch.outcomes[1] = "all_live"
    /\ batch.outcomes[2] \in FailedOutcomes
    /\ batch.outcomes[3] = "all_live"
    /\ batch.result = batch.sent[1] \o batch.sent[3]

\* The polls of a log that observed live a key the tracker did not hold.
NewLive(lg) ==
    {i \in 1..Len(lg) : lg[i].event = "live" /\ ~lg[i].tracked}

\* The calls of send_live_notification that a log holds.
Notified(lg) == {i \in 1..Len(lg) : lg[i].event = "notify"}

\* C26: a poll that observes live a key the tracker does not hold adds
\* that key and no other to the tracker and notifies it once; no poll
\* changes the tracker for a key other than its own; and in a cycle the
\* notifications are as many as the polls that observed live a key the
\* tracker did not hold, each following its poll.
C26_NewLiveKeysAllNotified ==
    [][/\ (Lookup("live") /\ CurKey \notin live_streams)
             => /\ live_streams' = live_streams \cup {CurKey}
                /\ Cardinality(live_streams') = Cardinality(live_streams) + 1
                /\ Notifies(CurKey)
                /\ \A k \in Keys \ {CurKey} :
                      NotifyCount(log', k) = NotifyCount(log, k)
       /\ \A o \in ApiOutcomes :
             Lookup(o) =>
                \A k \in Keys \ {CurKey} :
                   (k \in live_streams') = (k \in live_streams)
       /\ Cardinality(Notified(log')) = Cardinality(NewLive(log'))
       /\ \A i \in NewLive(log') :
             /\ i + 1 \in Notified(log')
             /\ log'[i + 1].guild = log'[i].guild
             /\ log'[i + 1].streamer = log'[i].streamer]_vars

\* C26 witness: in one cycle two keys were observed live that the tracker
\* did not hold; both were notified and both are in the tracker.
C26_Witness ==
    \E i, j \in Notified(log) :
       /\ i < j
       /\ stream_key(log[i].guild, log[i].streamer)
             # stream_key(log[j].guild, log[j].streamer)
       /\ Cardinality(Notified(log)) = 2
       /\ Cardinality(NewLive(log)) = 2
       /\ stream_key(log[i].guild, log[i].streamer) \in live_streams
       /\ stream_key(log[j].guild, log[j].streamer) \in live_streams

\* C29: the poll that calls send_live_notification for a key has put the
\* key into the tracker in the same step; the key is in the tracker all the
\* time the delivery is awaited, and when the delivery ends, delivered or
\* failed.
C29_TrackedBeforeDelivery ==
    [][/\ \A o \in ApiOutcomes :
             (Lookup(o) /\ Notifies(CurKey))
                => /\ CurKey \in live_streams'
                   /\ pc' = "send"
                   /\ cur' = cur /\ gi' = gi /\ guild_ids' = guild_ids
       /\ pc' = "send" => stream_key(guild_ids'[gi'], cur') \in live_streams'
       /\ \A sent \in BOOLEAN :
             Send(sent) => CurKey \in live_streams /\ CurKey \in live_streams'
       /\ pc' = "send" => pc \in {"lookup", "send"}]_vars

\* C29 witness: a delivery failed and its key is in the tracker.
C29_Witness ==
    \E i \in 1..Len(log) :
       /\ log[i].event = "delivery_failed"
       /\ stream_key(log[i].guild, log[i].streamer) \in live_streams

\* C21: a restart leaves the tracker empty; the tracker holds only keys
\* that a poll of the running process observed live; and the first poll of
\* the process that observes a key live or offline, when it observes it
\* live, puts the key into the tracker and notifies it, whatever the
\* tracker held before the restart.
C21_RestartForgetsTracker ==
    [][/\ Restart => live_streams' = {}
       /\ \A k \in live_streams' : last_obs'[k] = "live"
       /\ (Lookup("live") /\ last_obs[CurKey] = "none")
             => /\ CurKey \notin live_streams
                /\ CurKey \in live_streams'
                /\ Notifies(CurKey)]_vars

\* C21 witness: a key the tracker held when the process was restarted was
\* observed live by a cycle of the new process, notified again, and is in
\* the tracker.
C21_Witness ==
    \E k \in before :
       /\ k \in live_streams
       /\ NotifyCount(log, k) = 1
       /\ \E i \in 1..Len(log) : PollAt(i, k, "live") /\ log[i].prior = "none"

\* A command handler or a guild event runs in this step.
HandlerStep ==
    \/ \E g \in Guilds, n \in Names : AddStreamer(g, n)
    \/ \E g \in Guilds, n \in Names : RemoveStreamer(g, n)
    \/ \E g \in Guilds : ListStreamers(g)
    \/ \E g \in Guilds, c \in ChannelIds : SetChannel(g, c)
    \/ \E g \in Guilds, n \in Names, m \in Messages : SetMessage(g, n, m)
    \/ \E g \in Guilds, n \in Names : TestNotification(g, n)
    \/ \E g \in Guilds : OnGuildJoin(g)
    \/ \E g \in Guilds : OnGuildRemove(g)

\* C27: a step that changes the tracker is no step of a command handler
\* or of a guild event; while the process runs it is the step of a cycle
\* that handles the result of a lookup.
C27_OnlyTheCycleChangesTheTracker ==
    [][live_streams' # live_streams
          => /\ ~HandlerStep
             /\ Restart \/ \E o \in ApiOutcomes : Lookup(o)]_vars

\* C27 witness: a test notification was sent for a key, the tracker does
\* not hold that key, and it holds another that a cycle put there.
C27_Witness ==
    \E k \in tests :
       /\ k \notin live_streams
       /\ live_streams # {}

\* The poll of a streamer of a guild is in the log of the running cycle,
\* or it is the lookup the cycle is suspended in.
Polled(guild_id, streamer_name) ==
    \/ pc = "lookup" /\ guild_ids[gi] = guild_id /\ cur = streamer_name
    \/ \E i \in 1..Len(log) :
          /\ log[i].guild = guild_id
          /\ log[i].streamer = streamer_name
          /\ log[i].event \in {"live", "offline", "failed"}

\* The loop of the running cycle over the streamers of a guild ends in
\* this step.
StreamersDone ==
    /\ \/ \E o \in ApiOutcomes : Lookup(o)
       \/ \E sent \in BOOLEAN : Send(sent)
    /\ pc' \in {"guild", "idle"}

\* C28: a cycle polls the list of streamers that the registry holds when
\* the cycle reads it; and when the cycle has gone through the streamers
\* of a guild, it has polled every streamer that the registry lists for
\* the guild and that was not added after the cycle started.
C28_CycleReflectsCommands ==
    [][/\ (GuildStep /\ pc' = "lookup")
             => /\ guild_data'.streamers
                      = get_guild_data(ActiveStore, guild_ids[gi]).streamers
                /\ cur' = guild_data'.streamers[1]
       /\ StreamersDone
             => \A n \in LowerNames :
                   (/\ Monitored(ActiveStore, <<guild_ids[gi], n>>)
                    /\ <<guild_ids[gi], n>> \notin fresh)
                      => Polled(guild_ids[gi], n)]_vars

\* C30: removestreamer and on_guild_remove leave the tracker as it is; a
\* key whose streamer or guild was removed while the tracker held it is in
\* the tracker until a poll observes it offline; and a poll that observes
\* it live notifies nobody.
C30_RemovalKeepsTheKey ==
    [][/\ \A g \in Guilds, n \in Names :
             RemoveStreamer(g, n) => live_streams' = live_streams
       /\ \A g \in Guilds : OnGuildRemove(g) => live_streams' = live_streams
       /\ \A k \in stale' : k \in live_streams'
       /\ (Lookup("live") /\ CurKey \in stale) => NoNotification]_vars

\* The field of the snapshot is absent, null or empty.
Lacks(stream_data, k) ==
    k \notin DOMAIN stream_data \/ stream_data[k] \in {None, ""}

\* The template holds the four placeholders and text, nothing else.
FourOnly(template) ==
    \A i \in 1..Len(template) :
       \/ template[i].kind = "text"
       \/ /\ template[i].kind = "field"
          /\ template[i].text \in {"streamer", "title", "game", "url"}

\* The piece of the rendered message that stands where the template has
\* the placeholder.
ShownFor(template, rendered, name, fallback_text) ==
    \A i \in 1..Len(template) :
       (template[i].kind = "field" /\ template[i].text = name)
          => rendered.text[i] = fallback_text

\* C24: when a notification is rendered from a template of text and the
\* four placeholders, rendering does not fail, and where the snapshot has
\* no title (no category) - the field absent, null or empty - the message
\* shows "No title" ("No category") in the placeholder's place.
C24_MissingFieldsShowFallback ==
    (snap # NoneDict /\ FourOnly(message_template(tmpl)))
       => /\ msg # Raised
          /\ Lacks(snap, "title")
                => ShownFor(message_template(tmpl), msg, "title", "No title")
          /\ Lacks(snap, "game_name")
                => ShownFor(message_template(tmpl), msg, "game",
                            "No category")

\* The text that literal replacement of the four placeholders makes of a
\* template: the values of the call for the placeholders, every other
\* piece as it was written.
Replaced(template, kw) ==
    [i \in 1..Len(template) |->
        IF template[i].kind = "field" /\ template[i].text \in DOMAIN kw
        THEN Str(kw[template[i].text])
        ELSE Written(template[i])]

\* C25: whatever template setmessage stored, a notification is rendered
\* without an exception, its text is the template with the four
\* placeholders replaced and all other text as written, and it is not
\* dropped before channel.send.
C25_RenderingIsLiteralReplacement ==
    snap # NoneDict
       => /\ msg # Raised
          /\ msg.text = Replaced(message_template(tmpl),
                                 format_args(Streamer, snap))
          /\ delivery # "dropped"

\* The title that a message of the default template shows.
TitleIn(message) ==
    message.text[CHOOSE i \in 1..Len(DEFAULT_NOTIFICATION_MESSAGE) :
                    DEFAULT_NOTIFICATION_MESSAGE[i] = Field("title")]

\* The polls so far are those of the scenario: live with title Hello,
\* live, offline, live with title Again.
Scenario ==
    /\ Len(trace) >= 4
    /\ trace[1].data = LiveWith("Hello")
    /\ is_live(trace[2].data)
    /\ ~is_live(trace[3].data)
    /\ trace[4].data = LiveWith("Again")

\* C22: every poll of the account notifies exactly when it observes the
\* stream live and the poll before did not leave the key in the tracker,
\* and the message it renders shows the title of the snapshot of that same
\* poll; the key is in the tracker after a poll exactly when the poll
\* observed live. In the scenario the first poll notifies with title
\* Hello, the second and third notify nothing, the key is not in the
\* tracker after the third, and the fourth notifies with title Again.
C22_NotificationCarriesItsSnapshot ==
    /\ \A i \in 1..Len(trace) :
          /\ trace[i].tracked = is_live(trace[i].data)
          /\ trace[i].notify
                = (is_live(trace[i].data) /\ (i = 1 \/ ~trace[i - 1].tracked))
          /\ trace[i].notify
                => /\ trace[i].message # Raised
                   /\ TitleIn(trace[i].message) = trace[i].data.title
    /\ Scenario
          => /\ trace[1].notify /\ TitleIn(trace[1].message) = "Hello"
             /\ ~trace[2].notify
             /\ ~trace[3].notify /\ ~trace[3].tracked
             /\ trace[4].notify /\ TitleIn(trace[4].message) = "Again"

\* C22 witness: the four polls of the scenario were taken and the second
\* notification is in the channel.
C22_Witness ==
    /\ Scenario
    /\ Len(trace) = 4
    /\ npc = "idle"
    /\ delivery = "sent"
    /\ TitleIn(msg) = "Again"

\* The streamer lists of the documents and dicts of a store hold lowercase
\* names only, and no name twice.
ListsNormal(store) ==
    \A d \in 1..Len(store) :
       LET l == store[d].streamers
       IN  /\ \A i \in 1..Len(l) : l[i] \in Names /\ Lower(l[i]) = l[i]
           /\ \A i, j \in 1..Len(l) : l[i] = l[j] => i = j

\* A call of add_streamer of the handler returns in this step.
AddReturns(h) ==
    /\ op[h].at # "done"
    /\ op'[h].at = "done"
    /\ op'[h].fn = "add"

\* C23: in both backends, at every moment of every interleaving of calls
\* of add_streamer and remove_streamer, the list of a guild holds lowercase
\* names only and no name twice; and a call of add_streamer that returns
\* while the list holds the lowercased name returns False.
C23_NamesLowercaseAndUnique ==
    [][/\ ListsNormal(mongodb') /\ ListsNormal(fallback')
       /\ \A h \in Handlers :
             (AddReturns(h)
              /\ Monitored(ActiveStore, <<StoreGuild, op'[h].name>>))
                => ~op'[h].result]_vars

\* C23 witness: two calls of add_streamer for names that differ in case
\* only ran at the same time on MongoDB, one returned True and the other
\* False, and the list holds the lowercased name.
C23_Witness ==
    /\ is_async
    /\ op["h1"] = Returned("add", "alice", TRUE)
    /\ op["h2"] = Returned("add", "alice", FALSE)
    /\ Monitored(mongodb, <<StoreGuild, "alice">>)
    /\ Len(mongodb) = 2

\* C31: once the backend is chosen, no step changes active_db or is_async,
\* and the store that the wrapper's calls go to holds after a step of
\* on_ready what it held before.
C31_BackendChosenOnce ==
    [][active_db # None
          => /\ active_db' = active_db
             /\ is_async' = is_async
             /\ OnReady
                   => (IF is_async' THEN mongodb' ELSE fallback')
                         = ActiveStore]_vars

\* What a backend holds for a guild: its streamers, its notification
\* channel and its custom messages, or nothing.
Holds(store, guild_id) ==
    LET data == get_guild_data(store, guild_id)
    IN  IF data = NoneDict THEN <<>>
        ELSE <<data.streamers, data.notification_channel,
               data.custom_messages>>

\* C32: after every sequence of calls made on both backends, the last call
\* returned the same on both, and both hold the same streamers, the same
\* notification channel and the same custom messages for every guild.
C32_BackendsInterchangeable ==
    /\ op["h1"].result = op["h2"].result
    /\ \A g \in Guilds : Holds(fallback, g) = Holds(mongodb, g)

\* The polls of a streamer of a guild in the running cycle: those its log
\* holds, and the lookup the cycle is suspended in.
PollCount(guild_id, streamer_name) ==
    Cardinality({i \in 1..Len(log) :
                    /\ log[i].guild = guild_id
                    /\ log[i].streamer = streamer_name
                    /\ log[i].event \in {"live", "offline", "failed"}})
       + (IF pc = "lookup" /\ guild_ids[gi] = guild_id /\ cur = streamer_name
          THEN 1 ELSE 0)

\* C33: with the in-memory backend, when a cycle has gone through the
\* streamers of a guild, every account the guild monitored during the whole
\* cycle - it is monitored now and was not added since the cycle started -
\* was polled exactly once in the cycle, whatever commands ran meanwhile.
C33_MonitoredPolledOnce ==
    [][(~is_async /\ StreamersDone)
          => \A n \in LowerNames :
                (/\ Monitored(fallback, <<guild_ids[gi], n>>)
                 /\ <<guild_ids[gi], n>> \notin fresh)
                   => PollCount(guild_ids[gi], n) = 1]_vars

\* No two positions of the sequence hold the same value.
Distinct(seq) ==
    \A i, j \in 1..Len(seq) : seq[i] = seq[j] => i = j

\* C35: whatever create_guild calls interleave, each backend holds at most
\* one record per guild_id, and get_all_guilds, which a cycle goes
\* through, returns no guild twice.
C35_OneRecordPerGuild ==
    /\ Distinct([i \in 1..Len(mongodb) |-> mongodb[i].guild_id])
    /\ Distinct([i \in 1..Len(fallback) |-> fallback[i].guild_id])
    /\ Distinct(get_all_guilds(mongodb))
    /\ Distinct(get_all_guilds(fallback))

\* Every key of the custom messages of every record of the store is in the
\* streamers of that record.
MessagesOfMonitored(store) ==
    \A i \in 1..Len(store) :
       \A n \in DOMAIN store[i].custom_messages : Has(store[i].streamers, n)

\* C34: whatever addstreamer, removestreamer and setmessage commands
\* interleave, every key of a guild's custom_messages is an account the
\* guild monitors, in either backend.
C34_MessagesOnlyForMonitored ==
    MessagesOfMonitored(fallback) /\ MessagesOfMonitored(mongodb)

\* The store the wrapper writes to, after the step.
ActiveStoreAfter == IF is_async THEN mongodb' ELSE fallback'

\* The template send_live_notification takes for a streamer from the data
\* of a guild.
TemplateFor(data, streamer_name) ==
    message_template(IF streamer_name \in DOMAIN data.custom_messages
                     THEN [set |-> TRUE, len |-> MaxMessage,
                           tokens |->
                              <<Lit(data.custom_messages[streamer_name])>>]
                     ELSE NoTemplate)

LastPoll(lg, p) ==
    LET polls == {i \in 1..Len(lg) : /\ lg[i].guild = p[1]
                                     /\ lg[i].streamer = p[2]
                                     /\ lg[i].event # "notify"}
    IN  IF polls = {} THEN "none"
        ELSE lg[CHOOSE i \in polls : \A j \in polls : j <= i].event

\* The notifications of a pair that a log holds.
NotifiedTimes(lg, p) ==
    Cardinality({i \in 1..Len(lg) : /\ lg[i].guild = p[1]
                                    /\ lg[i].streamer = p[2]
                                    /\ lg[i].event = "notify"})

\* C36: two distinct pairs of guild and streamer have distinct keys; the
\* tracker holds the key of a pair exactly when the last poll of that pair
\* observed it live, whatever was observed for other pairs; and a poll
\* notifies its pair, once, exactly when it observes live and the last
\* poll of the same pair did not.
C36_KeysOfGuildsIndependent ==
    [][/\ \A p, q \in Pairs :
             p # q => stream_key_text(p[1], p[2]) # stream_key_text(q[1], q[2])
       /\ \A p \in Pairs :
             /\ stream_key_text(p[1], p[2]) \in live_streams'
                   <=> LastPoll(log', p) = "live"
             /\ NotifiedTimes(log', p) - NotifiedTimes(log, p)
                   = IF /\ LastPoll(log', p) = "live"
                        /\ LastPoll(log, p) # "live"
                        /\ \E d \in StreamData : PollPair(p[1], p[2], d)
                     THEN 1 ELSE 0]_vars

\* C36 witness: the same streamer is monitored by both guilds and was
\* observed live for both; both keys are in the tracker, each guild was
\* notified once, and a third pair with the same characters in its key was
\* observed offline in between.
C36_Witness ==
    /\ stream_key_text(1, <<"1", "a">>) \in live_streams
    /\ stream_key_text(11, <<"1", "a">>) \in live_streams
    /\ NotifiedTimes(log, <<1, <<"1", "a">>>>) = 1
    /\ NotifiedTimes(log, <<11, <<"1", "a">>>>) = 1
    /\ LastPoll(log, <<11, <<"a">>>>) = "offline"
    /\ Len(log) = 5

\* The member is not the owner of the bot and holds neither the
\* administrator nor the manage_guild permission.
NonAdmin(member) ==
    /\ member.id # "owner"
    /\ ~member.administrator
    /\ ~member.manage_guild

\* C39: a command of AdminCommands sent by a member who is not the owner
\* and holds neither permission leaves both stores, the bot's guilds and
\* channels, the tracker and the test notifications sent as they are: no
\* storage call changes the registry and testnotification sends nothing.
C39_NonAdminChangesNothing ==
    [][\A member \in Members :
          (NonAdmin(member) /\ Invoke(member))
             => /\ mongodb' = mongodb
                /\ fallback' = fallback
                /\ tests' = tests
                /\ live_streams' = live_streams
                /\ bot_guilds' = bot_guilds
                /\ channels' = channels]_vars

\* C39 witness: an admin added a streamer and set the channel; addstreamer
\* and testnotification of a member without permission were denied; the
\* registry holds what the admin stored and no test notification was sent.
C39_Witness ==
    /\ {"addstreamer", "testnotification"} \subseteq denied
    /\ Monitored(ActiveStore, <<1, "alice">>)
    /\ get_guild_data(ActiveStore, 1).notification_channel = "ch1"
    /\ tests = {}

\* The loop runs, the guild monitors the account of the key and its
\* notification channel is set and found.
Watched(key) ==
    /\ running > 0
    /\ key[1] \in bot_guilds
    /\ Monitored(ActiveStore, key)
    /\ get_guild_data(ActiveStore, key[1]).notification_channel \in channels

\* C37: a key comes into the tracker only in a step that calls
\* send_live_notification for it; and a key that is watched is in the
\* tracker at some later time, unless it stops being watched.
C37_WatchedIsNotified ==
    /\ [][\A k \in Keys :
             (k \notin live_streams /\ k \in live_streams') => Notifies(k)]_vars
    /\ \A n \in LowerNames :
          Watched(<<1, n>>)
             ~> (~Watched(<<1, n>>) \/ <<1, n>> \in live_streams)

\* C37 witness: two accounts are watched, the second of the list is in the
\* tracker and its notification is being sent, the first is not.
C37_Witness ==
    /\ pc = "send"
    /\ si = 2
    /\ Watched(<<1, "alice">>)
    /\ Watched(<<1, "bob">>)
    /\ stream_key(1, cur) \in live_streams
    /\ Cardinality(live_streams) = 1

====
